---------------------------- MODULE Spec2Model ----------------------------
(***************************************************************************)
(* vsnap: snapshots and restores of container-runtime volumes.             *)
(*                                                                         *)
(* The module models three parts of the repository:                        *)
(*   - the host orchestrator (rust/cli): naming and discovery of snapshot  *)
(*     volumes, the create / restore / drop commands and run_command, run  *)
(*     against a model of the container runtime (specification Spec);      *)
(*   - the worker's progress reporting (rust/runner/.../progress.rs and    *)
(*     snapshot.rs handle_progress), specification SpecProgress;           *)
(*   - the worker's snapshot / restore of a directory tree                 *)
(*     (rust/runner/.../snapshot.rs and rust/runner/src/main.rs),          *)
(*     specification SpecWorker.                                           *)
(*                                                                         *)
(* Strings are sequences of one-character strings, so that formatting a    *)
(* volume name and matching it against the snapshot pattern are computed.  *)
(***************************************************************************)
EXTENDS Integers, Sequences, FiniteSets, TLC

VARIABLES
    \* ---- container runtime (shared by all orchestrator invocations)
    volumes,        \* set of volume names that exist
    containers,     \* container name -> [state, mounts, names, exit, owner]
    imagePresent,   \* whether the worker image is present locally
    clock,          \* chrono::Utc::now().timestamp(), in seconds
    \* ---- orchestrator invocations
    pc,             \* invocation -> position in its command
    cmd,            \* invocation -> the command line it was given
    loc,            \* invocation -> local variables of the running command
    result,         \* invocation -> result of the command when it has returned
    \* ---- progress reporting inside one worker
    rImpl,          \* "reporter" (progress.rs) or "callback" (snapshot.rs)
    rState,         \* "off", "running" or "finished"
    rTotal,         \* total_size of the operation
    rReported,      \* sum of the chunk sizes the data path has reported
    rChunks,        \* number of chunks the data path has reported
    rTasks,         \* chunk size -> number of spawned send tasks not yet run
    rChannel,       \* the mpsc channel: chunk sizes sent and not yet received
    rProgress,      \* the running progress counter
    rEmitted,       \* the Progress records written to standard output
    rClosed,        \* the receiver of the channel has been dropped
    rPoll,          \* the last poll_read / poll_write: inner result and own result
    \* ---- snapshot and restore of a directory tree inside the worker
    wEntry,         \* "library" (snapshot.rs) or "main" (runner main.rs)
    wCompress,      \* the compress flag of the snapshot
    wTree,          \* the source directory: relative path -> entry
    wSnap,          \* the snapshot directory
    wRestored,      \* the restore destination: relative path -> entry
    wPc,            \* "off", "snapshot", "restore" or "done"
    wResult,        \* "none", "Ok" or "Err"
    wBranch,        \* the arm of the restore taken: "none", "archive" or "files"
    wCounted,       \* sum of the bytes the last operation gave to its progress callback
    \* ---- naming of one snapshot volume
    naming,          \* a snapshot identity and what the naming functions give
    \* ---- the orchestrator following the worker's log
    hItems,         \* the items the log stream yields, in order
    hNext,          \* index of the next item
    hBar,           \* the progress bar: position, length, finished
    hPc,            \* "off", "logs", "wait", "done"
    hResult,        \* what run_command returns
    hUnread         \* lines the worker wrote that the log stream did not deliver

orchVars == <<volumes, containers, imagePresent, clock, pc, cmd, loc, result>>

progVars == <<rImpl, rState, rTotal, rReported, rChunks, rTasks, rChannel,
              rProgress, rEmitted,
             rClosed, rPoll>>

workVars == <<wEntry, wCompress, wTree, wSnap, wRestored, wPc, wResult, wBranch, wCounted>>

nameVars == <<naming>>

hostVars == <<hItems, hNext, hBar, hPc, hResult, hUnread>>

runnerVars == <<progVars, workVars, nameVars, hostVars>>

vars == <<orchVars, runnerVars>>

----------------------------------------------------------------------------
(* Bounds of the model.                                                    *)

\* number of times the clock advances by one second
MaxTicks == 1
\* Largest total_size, largest size of one chunk, number of chunks one
\* operation reports, and the capacity of the channel to the reporter.
MaxTotal == 3
MaxChunk == 2
MaxChunks == 3
ChannelCapacity == 1

----------------------------------------------------------------------------
(* Strings.                                                                *)

Digits == <<"0", "1", "2", "3", "4", "5", "6", "7", "8", "9">>

IsDigit(c) == \E i \in 1..10 : Digits[i] = c

RECURSIVE FormatNat(_)
FormatNat(n) ==
    IF n < 10 THEN <<Digits[n + 1]>>
    ELSE FormatNat(n \div 10) \o <<Digits[(n % 10) + 1]>>

\* An i64 is held as a sign and a magnitude; the magnitude is a sequence of
\* limbs of nine decimal digits, most significant first and without a
\* leading zero limb, so that timestamps beyond the range of a date-time
\* can be written down.
LimbBase == 1000000000
LimbDigits == 9

Limbs(n) == IF n < LimbBase THEN <<n>> ELSE <<n \div LimbBase, n % LimbBase>>

I64(n) == [neg |-> n < 0, mag |-> Limbs(IF n < 0 THEN 0 - n ELSE n)]

\* a <= b for magnitudes.
RECURSIVE LimbsLeq(_, _)
LimbsLeq(a, b) ==
    IF Len(a) # Len(b) THEN Len(a) < Len(b)
    ELSE IF a = <<>> THEN TRUE
    ELSE IF Head(a) # Head(b) THEN Head(a) < Head(b)
    ELSE LimbsLeq(Tail(a), Tail(b))

I64_MAX == <<9, 223372036, 854775807>>

RECURSIVE Zeros(_)
Zeros(k) == IF k <= 0 THEN <<>> ELSE <<"0">> \o Zeros(k - 1)

RECURSIVE FormatLimbs(_, _)
FormatLimbs(mag, first) ==
    IF mag = <<>> THEN <<>>
    ELSE LET d == FormatNat(Head(mag))
         IN  (IF first THEN d ELSE Zeros(LimbDigits - Len(d)) \o d)
                \o FormatLimbs(Tail(mag), FALSE)

\* Display of an i64, as format!("{}", n) prints it.
FormatI64(n) ==
    (IF n.neg THEN <<"-">> ELSE <<>>) \o FormatLimbs(n.mag, TRUE)

DigitValue(c) == CHOOSE i \in 0..9 : Digits[i + 1] = c

\* The value of at most nine digits.
RECURSIVE ParseNat(_)
ParseNat(d) ==
    IF d = <<>> THEN 0
    ELSE ParseNat(SubSeq(d, 1, Len(d) - 1)) * 10 + DigitValue(d[Len(d)])

RECURSIVE StripZeros(_)
StripZeros(d) ==
    IF Len(d) > 1 /\ Head(d) = "0" THEN StripZeros(Tail(d)) ELSE d

RECURSIVE ParseLimbs(_)
ParseLimbs(d) ==
    IF Len(d) <= LimbDigits THEN <<ParseNat(d)>>
    ELSE ParseLimbs(SubSeq(d, 1, Len(d) - LimbDigits))
            \o <<ParseNat(SubSeq(d, Len(d) - LimbDigits + 1, Len(d)))>>

StartsWith(s, prefix) ==
    /\ Len(s) >= Len(prefix)
    /\ SubSeq(s, 1, Len(prefix)) = prefix

Contains(s, part) ==
    \E i \in 0..(Len(s) - Len(part)) : SubSeq(s, i + 1, i + Len(part)) = part

VsnapDash == <<"v", "s", "n", "a", "p", "-">>

\* Number of digit characters of s from position i on.
RECURSIVE DigitRun(_, _)
DigitRun(s, i) ==
    IF i <= Len(s) /\ IsDigit(s[i]) THEN 1 + DigitRun(s, i + 1) ELSE 0

\* Shortest run of digits the pattern accepts: \d{10,}
MinTimestampDigits == 10

\* The pattern with \d{10} in place of \d{10,}.
SnapshotPrefixLenTenDigits(s) ==
    IF /\ StartsWith(s, VsnapDash)
       /\ DigitRun(s, Len(VsnapDash) + 1) = MinTimestampDigits
       /\ Len(s) > Len(VsnapDash) + MinTimestampDigits
       /\ s[Len(VsnapDash) + MinTimestampDigits + 1] = "-"
    THEN Len(VsnapDash) + MinTimestampDigits + 1 ELSE 0

\* SNAPSHOT_PREFIX_REGEX = ^vsnap-(\d{10,})- : length of the match at the
\* start of s, 0 when s does not match. The run of digits is followed by
\* "-", which is no digit, so only the maximal run can match.
SnapshotPrefixLen(s) ==
    IF ~StartsWith(s, VsnapDash) THEN 0
    ELSE LET k == DigitRun(s, Len(VsnapDash) + 1)
             e == Len(VsnapDash) + k + 1
         IN  IF k >= MinTimestampDigits /\ e <= Len(s) /\ s[e] = "-"
             THEN e ELSE 0

SnapshotPrefixMatches(s) == SnapshotPrefixLen(s) > 0

\* The format string without the separator after the timestamp.
get_snapshot_volume_name_unseparated(timestamp, name) ==
    VsnapDash \o FormatI64(timestamp) \o name

\* Snapshot::to_volume_name of config.rs, the same format.
to_volume_name(timestamp, name) ==
    VsnapDash \o FormatI64(timestamp) \o <<"-">> \o name

get_snapshot_volume_name(timestamp, name) ==
    VsnapDash \o FormatI64(timestamp) \o <<"-">> \o name

\* Only the fixed text "vsnap-" removed, the timestamp left in place.
strip_fixed_text_only(volume_name) ==
    IF StartsWith(volume_name, VsnapDash)
    THEN SubSeq(volume_name, Len(VsnapDash) + 1, Len(volume_name))
    ELSE volume_name

\* SNAPSHOT_PREFIX_REGEX.replace(volume_name, ""): the first match removed,
\* the name unchanged when there is none.
strip_snapshot_prefix(volume_name) ==
    SubSeq(volume_name, SnapshotPrefixLen(volume_name) + 1, Len(volume_name))

\* str::parse::<i64> on a run of digits: an error when the value is above
\* i64::MAX.
ParseI64(d) ==
    LET mag == ParseLimbs(StripZeros(d))
    IN  IF d = <<>> \/ ~LimbsLeq(mag, I64_MAX) THEN [ok |-> FALSE]
        ELSE [ok |-> TRUE, val |-> [neg |-> FALSE, mag |-> mag]]

\* The last second chrono holds as a date-time: 262142-12-31T23:59:59Z.
CHRONO_MAX == <<8210, 266876799>>

\* chrono::DateTime::from_timestamp(timestamp, 0): None outside the range
\* of a date-time. The result stands for the instant; with_timezone(&Local)
\* and naive_local() present the same instant in local time.
from_timestamp(timestamp) ==
    IF ~timestamp.neg /\ LimbsLeq(timestamp.mag, CHRONO_MAX)
    THEN [tag |-> "Some", val |-> timestamp] ELSE [tag |-> "None"]

extract_snapshot_datetime(volume_name) ==
    IF SnapshotPrefixLen(volume_name) = 0
    THEN [tag |-> "Err", err |-> "NoTimestamp"]
    ELSE LET parsed == ParseI64(SubSeq(volume_name, Len(VsnapDash) + 1,
                                       SnapshotPrefixLen(volume_name) - 1))
         IN  IF ~parsed.ok THEN [tag |-> "Err", err |-> "ParseInt"]
             ELSE IF from_timestamp(parsed.val).tag = "None"
             THEN [tag |-> "Err", err |-> "OutOfRange"]
             ELSE [tag |-> "Ok", val |-> from_timestamp(parsed.val).val]


----------------------------------------------------------------------------
(* Discovery (rust/cli/src/library/docker.rs).                             *)

\* All orders in which the runtime may list the elements of S.
RECURSIVE Orders(_)
Orders(S) ==
    IF S = {} THEN {<<>>}
    ELSE UNION {{<<x>> \o o : o \in Orders(S \ {x})} : x \in S}

\* list_volumes with the filter name=["vsnap-"]: the runtime keeps the
\* volumes whose name contains the filter text, in an order of its own.
ListVolumesFiltered(vols) == Orders({v \in vols : Contains(v, VsnapDash)})

\* find_snapshot_volume_names, given the runtime's listing.
find_snapshot_volume_names(listing) ==
    SelectSeq(listing, SnapshotPrefixMatches)

None == [tag |-> "None"]
Some(v) == [tag |-> "Some", val |-> v]
Err(e) == [tag |-> "Err", err |-> e]

\* The first element taken, whatever follows it (Iterator::next).
first_of(s) == IF Len(s) = 0 THEN None ELSE Some(s[1])

\* Itertools::at_most_one: Ok(None) for no element, Ok(Some(first)) for one,
\* an error when a second element follows the first.
at_most_one(s) ==
    IF Len(s) = 0 THEN None
    ELSE IF Len(s) >= 2 THEN Err("Ambiguous")
    ELSE Some(s[1])

find_snapshot_volume_name_by_snapshot_name(listing, snapshot_name) ==
    LET NameIs(volume_name) == strip_snapshot_prefix(volume_name) = snapshot_name
    IN  at_most_one(SelectSeq(find_snapshot_volume_names(listing), NameIs))

----------------------------------------------------------------------------
(* The container runtime.                                                  *)

\* Containers that reference volume v: list_containers with all = true and
\* the filter volume=[v].
Users(v) == {c \in DOMAIN containers : \E m \in containers[c].mounts : m.vol = v}

\* The names verify_volume_not_in_use collects from that listing: of each
\* container the first reported name, kept only when strip_prefix("/")
\* succeeds on it.
InUseNames(v) ==
    {c \in Users(v) :
        /\ Len(containers[c].names) > 0
        /\ StartsWith(containers[c].names[1], <<"/">>)}

\* The listing taken without all = true: stopped containers are left out.
verify_volume_not_in_use_running_only(v) ==
    IF \E c \in InUseNames(v) : containers[c].state = "running"
    THEN Err("InUse") ELSE None

verify_volume_not_in_use(v) == IF InUseNames(v) # {} THEN Err("InUse") ELSE None

SOURCE_DIR == <<"/mnt/source">>
SNAPSHOT_DIR == <<"/mnt/snapshot">>
RESTORE_DIR == <<"/mnt/restore">>

\* HostConfig of snapshot(): the source read-only, the snapshot read-write.
SnapshotMounts(source_volume_name, snapshot_volume_name) ==
    { [vol |-> source_volume_name, target |-> SOURCE_DIR, ro |-> TRUE],
      [vol |-> snapshot_volume_name, target |-> SNAPSHOT_DIR, ro |-> FALSE] }

SnapshotCmd(compress) ==
    IF compress THEN <<"snapshot", "--compress">> \o SOURCE_DIR \o SNAPSHOT_DIR
    ELSE <<"snapshot">> \o SOURCE_DIR \o SNAPSHOT_DIR

\* HostConfig of restore_snapshot(): the snapshot read-only, the target
\* read-write.
RestoreMounts(snapshot_volume_name, restore_volume_name) ==
    { [vol |-> snapshot_volume_name, target |-> SNAPSHOT_DIR, ro |-> TRUE],
      [vol |-> restore_volume_name, target |-> RESTORE_DIR, ro |-> FALSE] }

RestoreCmd == <<"restore">> \o SNAPSHOT_DIR \o RESTORE_DIR

\* format!("vsnap-{}", chrono::Utc::now().timestamp())
WorkerName(now) == VsnapDash \o FormatI64(I64(now))

----------------------------------------------------------------------------
(* Inputs of the orchestrator model.                                       *)

Invocations == {"i1", "i2"}

\* a user volume, the usual source of a snapshot
VolData == <<"d", "a", "t", "a">>
\* a volume name used as a restore target
VolRestore == <<"r", "e", "s">>

NameDb1 == <<"d", "b", "1">>

\* first value of the clock, and the timestamp of snapshots made earlier
ClockStart == 1700000000
OldTimestamp == 1600000000
ShortTimestamp == 99

\* Volumes that may exist before the first command: the user volume, two
\* earlier snapshots of the same name, a volume whose timestamp is too
\* short for the pattern, and one that only contains the prefix text.
OldSnapshot1 == VsnapDash \o FormatNat(OldTimestamp) \o <<"-">> \o NameDb1
OldSnapshot2 == VsnapDash \o FormatNat(OldTimestamp + 1) \o <<"-">> \o NameDb1
ShortStamped == VsnapDash \o FormatNat(ShortTimestamp) \o <<"-">> \o NameDb1
NotAnchored == <<"x">> \o OldSnapshot1
InitialVolumeSets ==
    { {VolData} \cup S : S \in SUBSET {OldSnapshot1, OldSnapshot2} }
        \cup { {}, {VolData, ShortStamped, NotAnchored},
               {VolData, OldSnapshot1, ShortStamped, NotAnchored} }

\* A container of another user of the runtime, and the ways the runtime may
\* report its names in a listing.
ExternalName == <<"a", "p", "p">>
ReportedNames(c) == { <<<<"/">> \o c>>, <<c>>, <<>> }
\* the volumes it may mount: the user volume and a snapshot volume
ExternalTargets == {VolData, OldSnapshot1}

Commands ==
    [op : {"create"}, source : {VolData}, name : {NameDb1}, compress : BOOLEAN]
        \cup [op : {"restore"}, name : {NameDb1}, target : {VolData, VolRestore},
              drop : BOOLEAN, answer : BOOLEAN]
        \* a snapshot restored onto the volume that holds it
        \cup [op : {"restore"}, name : {NameDb1}, target : {OldSnapshot1},
              drop : {FALSE}, answer : {FALSE}]
        \cup [op : {"drop"}, name : {NameDb1}]
        \cup [op : {"main_create"}, source : {VolData}, name : {NameDb1},
              compression : BOOLEAN]

NoCommand == [op |-> "none"]

InitLoc ==
    [ svol |-> <<>>,        \* snapshot_volume_name
      cname |-> <<>>,       \* container_name
      create |-> "none",    \* outcome of create_container: none, ok, failed
      start |-> "none",     \* outcome of start_container
      wait |-> "none",      \* outcome of wait_container
      exit |-> -1,          \* exit code wait_container reported, -1 for none
      remove |-> "none",    \* outcome of remove_container: none, ok, failed,
                            \* refused (the container is running)
      rc |-> "none",        \* what run_command returned
      checks |-> {},        \* the checks of create that have passed
      declined |-> FALSE ]  \* restore saw its target and the answer was no

InitOrch ==
    /\ volumes \in InitialVolumeSets
    /\ containers = [c \in {} |-> NoCommand]
    /\ imagePresent \in BOOLEAN
    /\ clock = ClockStart
    /\ pc = [i \in Invocations |-> "idle"]
    /\ cmd = [i \in Invocations |-> NoCommand]
    /\ loc = [i \in Invocations |-> InitLoc]
    /\ result = [i \in Invocations |-> "none"]

----------------------------------------------------------------------------
(* Steps shared by the commands.                                           *)

runtimeVars == <<volumes, containers, imagePresent, clock>>

Goto(i, label) ==
    /\ pc' = [pc EXCEPT ![i] = label]
    /\ UNCHANGED runnerVars

\* The command returns r to its caller.
Return(i, r) ==
    /\ pc' = [pc EXCEPT ![i] = "done"]
    /\ result' = [result EXCEPT ![i] = r]
    /\ UNCHANGED runnerVars

WithoutContainer(c) == [x \in DOMAIN containers \ {c} |-> containers[x]]

WorkerContainer(i, mounts, command) ==
    [ state |-> "created", mounts |-> mounts, cmd |-> command,
      names |-> <<<<"/">> \o loc[i].cname>>, exit |-> -1, kind |-> "worker",
      owner |-> i, wrote |-> {} ]

\* Invocation i is started with a command line; it runs that one command.
Start(i) ==
    /\ pc[i] = "idle"
    /\ \E c \in Commands :
        /\ cmd' = [cmd EXCEPT ![i] = c]
        /\ Goto(i, CASE c.op = "create" -> "c_verify"
                     [] c.op = "restore" -> "rs_find"
                     [] c.op = "drop" -> "d_find"
                     [] c.op = "main_create" -> "mc_inspect")
    /\ loc' = [loc EXCEPT ![i] = InitLoc]
    /\ result' = [result EXCEPT ![i] = "none"]
    /\ UNCHANGED runtimeVars

\* drop_volume, first statement: verify_volume_not_in_use(v)?
DropVolumeVerify(i, at, next, v) ==
    /\ pc[i] = at
    /\ \E ok \in BOOLEAN :
        IF ~ok THEN Return(i, "RuntimeError")
        ELSE IF verify_volume_not_in_use(v).tag = "Err" THEN Return(i, "InUse")
        ELSE Goto(i, next) /\ UNCHANGED result
    /\ UNCHANGED <<runtimeVars, cmd, loc>>

\* drop_volume, second statement: docker.remove_volume(v, None)?  The
\* runtime refuses to remove a volume that is absent or that a container
\* references.
DropVolumeRemove(i, at, next, v) ==
    /\ pc[i] = at
    /\ \E ok \in BOOLEAN :
        IF ok /\ v \in volumes /\ Users(v) = {}
        THEN /\ volumes' = volumes \ {v}
             /\ IF next = "done" THEN Return(i, "Ok")
                ELSE Goto(i, next) /\ UNCHANGED result
        ELSE /\ Return(i, "RuntimeError")
             /\ UNCHANGED volumes
    /\ UNCHANGED <<containers, imagePresent, clock, cmd, loc>>

----------------------------------------------------------------------------
(* run_command (docker.rs 246-306).                                        *)

\* container_name and image are computed, then image_exists(): a failed
\* inspection counts as an absent image.
RcImage(i) ==
    /\ pc[i] = "rc_image"
    /\ loc' = [loc EXCEPT ![i].cname = WorkerName(clock)]
    /\ \E ok \in BOOLEAN :
        IF ok /\ imagePresent THEN Goto(i, "rc_create") ELSE Goto(i, "rc_pull")
    /\ UNCHANGED <<runtimeVars, cmd, result>>

\* pull_image(): the pull stream is drained and its items are dropped, so
\* the function returns Ok whether or not the image arrived.
RcPull(i) ==
    /\ pc[i] = "rc_pull"
    /\ \E arrived \in BOOLEAN : imagePresent' = (imagePresent \/ arrived)
    /\ Goto(i, "rc_create")
    /\ UNCHANGED <<volumes, containers, clock, cmd, loc, result>>

RcMounts(i) ==
    IF cmd[i].op = "create" THEN SnapshotMounts(cmd[i].source, loc[i].svol)
    ELSE RestoreMounts(loc[i].svol, cmd[i].target)

RcCmd(i) == IF cmd[i].op = "create" THEN SnapshotCmd(cmd[i].compress) ELSE RestoreCmd

\* docker.create_container(options, config).await?  The runtime refuses a
\* name that is taken and an image that is absent.
RcCreate(i) ==
    /\ pc[i] = "rc_create"
    /\ \E ok \in BOOLEAN :
        IF ok /\ imagePresent /\ loc[i].cname \notin DOMAIN containers
        THEN /\ containers' = containers @@
                    (loc[i].cname :> WorkerContainer(i, RcMounts(i), RcCmd(i)))
             /\ loc' = [loc EXCEPT ![i].create = "ok"]
             /\ Goto(i, "rc_start")
        ELSE /\ loc' = [loc EXCEPT ![i].create = "failed"]
             /\ Goto(i, "rc_remove")
             /\ UNCHANGED containers
    /\ UNCHANGED <<volumes, imagePresent, clock, cmd, result>>

\* docker.start_container(&container_name, None).await?, then
\* create_progress_bar(0)?, whose template is a constant that parses.
RcStart(i) ==
    /\ pc[i] = "rc_start"
    /\ \E ok \in BOOLEAN :
        IF /\ ok
           /\ loc[i].cname \in DOMAIN containers
           /\ containers[loc[i].cname].state = "created"
        THEN /\ containers' = [containers EXCEPT ![loc[i].cname].state = "running"]
             /\ loc' = [loc EXCEPT ![i].start = "ok"]
             /\ Goto(i, "rc_logs")
        ELSE /\ loc' = [loc EXCEPT ![i].start = "failed"]
             /\ Goto(i, "rc_remove")
             /\ UNCHANGED containers
    /\ UNCHANGED <<volumes, imagePresent, clock, cmd, result>>

Running(c) == c \in DOMAIN containers /\ containers[c].state = "running"

\* docker.logs(follow, stdout).for_each(handle_progress): the stream ends
\* when the container has stopped, or earlier with an error item; neither
\* is looked at.
RcLogs(i) ==
    /\ pc[i] = "rc_logs"
    /\ \E ok \in BOOLEAN : ok => ~Running(loc[i].cname)
    /\ Goto(i, "rc_wait")
    /\ UNCHANGED <<runtimeVars, cmd, loc, result>>

\* docker.wait_container(..).for_each(|_| {}): one item when the container
\* has stopped (an error item for a non-zero exit code), or an error item
\* when the call fails; every item is dropped.
RcWait(i) ==
    /\ pc[i] = "rc_wait"
    /\ \E ok \in BOOLEAN :
        IF ok /\ loc[i].cname \in DOMAIN containers
        THEN /\ ~Running(loc[i].cname)
             /\ loc' = [loc EXCEPT ![i].wait = "ok",
                                   ![i].exit = containers[loc[i].cname].exit]
        ELSE loc' = [loc EXCEPT ![i].wait = "failed"]
    /\ Goto(i, "rc_remove")
    /\ UNCHANGED <<runtimeVars, cmd, result>>

\* The closure's result is matched with `_`, remove_container(name, None)
\* is called and its result dropped with .ok(); run_command returns Ok(()).
\* Without the force option the runtime refuses to remove a running
\* container.
RcRemove(i) ==
    /\ pc[i] = "rc_remove"
    /\ \E ok \in BOOLEAN :
        IF ok /\ loc[i].cname \in DOMAIN containers /\ ~Running(loc[i].cname)
        THEN /\ containers' = WithoutContainer(loc[i].cname)
             /\ loc' = [loc EXCEPT ![i].remove = "ok", ![i].rc = "Ok"]
        ELSE /\ loc' = [loc EXCEPT
                    ![i].remove = IF ok /\ Running(loc[i].cname)
                                  THEN "refused" ELSE "failed",
                    ![i].rc = "Ok"]
             /\ UNCHANGED containers
    /\ Goto(i, "rc_ret")
    /\ UNCHANGED <<volumes, imagePresent, clock, cmd, result>>

\* A return from run_command that takes the snapshot volume away again when
\* a step failed or the worker did not exit with 0.
RcReturnRollingBack(i) ==
    /\ pc[i] = "rc_ret"
    /\ IF cmd[i].op = "restore" /\ cmd[i].drop
       THEN Goto(i, "rs_sdrop_verify") /\ UNCHANGED result
       ELSE Return(i, loc[i].rc)
    /\ volumes' = IF \/ "failed" \in {loc[i].create, loc[i].start, loc[i].wait}
                     \/ loc[i].exit # 0
                  THEN volumes \ {loc[i].svol} ELSE volumes
    /\ UNCHANGED <<containers, imagePresent, clock, cmd, loc>>

\* The caller of run_command goes on: snapshot() and restore_snapshot()
\* pass its result up; create() returns it, restore() drops the snapshot
\* volume when asked to.
RcReturn(i) ==
    /\ pc[i] = "rc_ret"
    /\ IF loc[i].rc # "Ok" THEN Return(i, loc[i].rc)
       ELSE IF cmd[i].op = "restore" /\ cmd[i].drop
            THEN Goto(i, "rs_sdrop_verify") /\ UNCHANGED result
            ELSE Return(i, "Ok")
    /\ UNCHANGED <<runtimeVars, cmd, loc>>

----------------------------------------------------------------------------
(* create (cli.rs 101-127).                                                *)

\* verify_snapshot_does_not_exist(), then the snapshot volume's name is
\* formed from the current time.
CreateVerifySnapshot(i) ==
    /\ pc[i] = "c_verify"
    /\ \E ok \in BOOLEAN, listing \in ListVolumesFiltered(volumes) :
        LET found == find_snapshot_volume_name_by_snapshot_name(listing, cmd[i].name)
        IN  IF ~ok THEN Return(i, "RuntimeError") /\ UNCHANGED loc
            ELSE IF found.tag = "Err" THEN Return(i, found.err) /\ UNCHANGED loc
            ELSE IF found.tag = "Some" THEN Return(i, "AlreadyExists") /\ UNCHANGED loc
            ELSE /\ loc' = [loc EXCEPT
                        ![i].svol = get_snapshot_volume_name(I64(clock), cmd[i].name),
                        ![i].checks = @ \cup {"name"}]
                 /\ Goto(i, "c_in_use")
                 /\ UNCHANGED result
    /\ UNCHANGED <<runtimeVars, cmd>>

\* verify_volume_not_in_use(&docker, &source_volume_name)?
CreateVerifyNotInUse(i) ==
    /\ pc[i] = "c_in_use"
    /\ \E ok \in BOOLEAN :
        IF ~ok THEN Return(i, "RuntimeError") /\ UNCHANGED loc
        ELSE IF verify_volume_not_in_use(cmd[i].source).tag = "Err"
             THEN Return(i, "InUse") /\ UNCHANGED loc
        ELSE /\ loc' = [loc EXCEPT ![i].checks = @ \cup {"in_use"}]
             /\ Goto(i, "c_exists")
             /\ UNCHANGED result
    /\ UNCHANGED <<runtimeVars, cmd>>

\* volume_exists(): inspect_volume(..).ok().is_some(), so a failed
\* inspection counts as an absent volume.
volume_exists(ok, v) == ok /\ v \in volumes

\* verify_volume_exists(&docker, &source_volume_name)?
CreateVerifyExists(i) ==
    /\ pc[i] = "c_exists"
    /\ \E ok \in BOOLEAN :
        IF volume_exists(ok, cmd[i].source)
        THEN /\ loc' = [loc EXCEPT ![i].checks = @ \cup {"exists"}]
             /\ Goto(i, "c_create_volume")
             /\ UNCHANGED result
        ELSE Return(i, "NotFound") /\ UNCHANGED loc
    /\ UNCHANGED <<runtimeVars, cmd>>

\* create_volume(&docker, &snapshot_volume_name)?  For a name that exists
\* the runtime either answers with the existing volume or with an error.
CreateVolume(i) ==
    /\ pc[i] = "c_create_volume"
    /\ \E ok \in BOOLEAN :
        IF ok
        THEN /\ volumes' = volumes \cup {loc[i].svol}
             /\ Goto(i, "rc_image")
             /\ UNCHANGED result
        ELSE /\ Return(i, "RuntimeError")
             /\ UNCHANGED volumes
    /\ UNCHANGED <<containers, imagePresent, clock, cmd, loc>>

----------------------------------------------------------------------------
(* restore (cli.rs 150-180).                                               *)

RestoreFind(i) ==
    /\ pc[i] = "rs_find"
    /\ \E ok \in BOOLEAN, listing \in ListVolumesFiltered(volumes) :
        LET found == find_snapshot_volume_name_by_snapshot_name(listing, cmd[i].name)
        IN  IF ~ok THEN Return(i, "RuntimeError") /\ UNCHANGED loc
            ELSE IF found.tag = "Err" THEN Return(i, found.err) /\ UNCHANGED loc
            ELSE IF found.tag = "None" THEN Return(i, "NotFound") /\ UNCHANGED loc
            ELSE /\ loc' = [loc EXCEPT ![i].svol = found.val]
                 /\ Goto(i, "rs_exists")
                 /\ UNCHANGED result
    /\ UNCHANGED <<runtimeVars, cmd>>

\* if volume_exists(restore_volume_name) { if Confirm.prompt()? { drop } }
RestoreExists(i) ==
    /\ pc[i] = "rs_exists"
    /\ \E ok \in BOOLEAN :
        IF ~volume_exists(ok, cmd[i].target)
        THEN Goto(i, "rs_create_volume") /\ UNCHANGED loc
        ELSE IF cmd[i].answer
        THEN Goto(i, "rs_drop_verify") /\ UNCHANGED loc
        ELSE /\ loc' = [loc EXCEPT ![i].declined = TRUE]
             /\ Goto(i, "rs_create_volume")
    /\ UNCHANGED <<runtimeVars, cmd, result>>

RestoreDropVerify(i) ==
    DropVolumeVerify(i, "rs_drop_verify", "rs_drop_remove", cmd[i].target)

RestoreDropRemove(i) ==
    DropVolumeRemove(i, "rs_drop_remove", "rs_create_volume", cmd[i].target)

\* create_volume(&docker, &restore_volume_name)?
RestoreCreateVolume(i) ==
    /\ pc[i] = "rs_create_volume"
    /\ \E ok \in BOOLEAN :
        IF ok
        THEN /\ volumes' = volumes \cup {cmd[i].target}
             /\ Goto(i, "rc_image")
             /\ UNCHANGED result
        ELSE /\ Return(i, "RuntimeError")
             /\ UNCHANGED volumes
    /\ UNCHANGED <<containers, imagePresent, clock, cmd, loc>>

\* if drop { drop_volume(&docker, &snapshot_volume_name)? }
RestoreSnapshotDropVerify(i) ==
    DropVolumeVerify(i, "rs_sdrop_verify", "rs_sdrop_remove", loc[i].svol)

RestoreSnapshotDropRemove(i) ==
    DropVolumeRemove(i, "rs_sdrop_remove", "done", loc[i].svol)

----------------------------------------------------------------------------
(* drop (cli.rs 182-192).                                                  *)

DropFind(i) ==
    /\ pc[i] = "d_find"
    /\ \E ok \in BOOLEAN, listing \in ListVolumesFiltered(volumes) :
        LET found == find_snapshot_volume_name_by_snapshot_name(listing, cmd[i].name)
        IN  IF ~ok THEN Return(i, "RuntimeError") /\ UNCHANGED loc
            ELSE IF found.tag = "Err" THEN Return(i, found.err) /\ UNCHANGED loc
            ELSE IF found.tag = "None" THEN Return(i, "NotFound") /\ UNCHANGED loc
            ELSE /\ loc' = [loc EXCEPT ![i].svol = found.val]
                 /\ Goto(i, "d_verify")
                 /\ UNCHANGED result
    /\ UNCHANGED <<runtimeVars, cmd>>

DropVerify(i) == DropVolumeVerify(i, "d_verify", "d_remove", loc[i].svol)

DropRemove(i) == DropVolumeRemove(i, "d_remove", "done", loc[i].svol)

----------------------------------------------------------------------------
(* main, Commands::Create (rust/cli/src/main.rs 21-118).                   *)

\* Snapshot { timestamp: now, name }, then inspect_volume(..).ok(): an
\* absent volume and a volume whose usage data show a reference both end
\* the command with Ok(()). The runtime fills usage_data in or leaves it out.
MainInspect(i) ==
    /\ pc[i] = "mc_inspect"
    /\ \E ok \in BOOLEAN, usage \in BOOLEAN :
        LET named == [loc EXCEPT ![i].svol = to_volume_name(I64(clock), cmd[i].name)]
        IN  IF ~volume_exists(ok, cmd[i].source)
            THEN loc' = named /\ Return(i, "Ok")
            ELSE IF usage /\ Users(cmd[i].source) # {}
            THEN loc' = named /\ Return(i, "Ok")
            ELSE /\ loc' = [named EXCEPT ![i].checks =
                                IF usage THEN {"exists", "in_use"} ELSE {"exists"}]
                 /\ Goto(i, "mc_create_volume")
                 /\ UNCHANGED result
    /\ UNCHANGED <<runtimeVars, cmd>>

\* docker.create_volume(config).await?
MainCreateVolume(i) ==
    /\ pc[i] = "mc_create_volume"
    /\ \E ok \in BOOLEAN :
        IF ok
        THEN /\ volumes' = volumes \cup {loc[i].svol}
             /\ Goto(i, "mc_create")
             /\ UNCHANGED result
        ELSE /\ Return(i, "RuntimeError")
             /\ UNCHANGED volumes
    /\ UNCHANGED <<containers, imagePresent, clock, cmd, loc>>

MainCmd(compression) ==
    IF compression
    THEN <<"--source", "/mnt/source", "--target", "/mnt/target", "snapshot",
           "--compression">>
    ELSE <<"--source", "/mnt/source", "--target", "/mnt/target", "snapshot">>

MainMounts(i) ==
    { [vol |-> cmd[i].source, target |-> <<"/mnt/source">>, ro |-> TRUE],
      [vol |-> loc[i].svol, target |-> <<"/mnt/target">>, ro |-> FALSE] }

\* docker.create_container(options, config).await?
MainCreateContainer(i) ==
    /\ pc[i] = "mc_create"
    /\ \E ok \in BOOLEAN :
        LET name == WorkerName(clock)
        IN  IF ok /\ imagePresent /\ name \notin DOMAIN containers
            THEN /\ loc' = [loc EXCEPT ![i].cname = name, ![i].create = "ok"]
                 /\ containers' = containers @@
                        (name :> [WorkerContainer(i, MainMounts(i),
                                                  MainCmd(cmd[i].compression))
                                  EXCEPT !.names = <<<<"/">> \o name>>])
                 /\ Goto(i, "mc_start")
                 /\ UNCHANGED result
            ELSE /\ loc' = [loc EXCEPT ![i].cname = name, ![i].create = "failed"]
                 /\ Return(i, "RuntimeError")
                 /\ UNCHANGED containers
    /\ UNCHANGED <<volumes, imagePresent, clock, cmd>>

\* docker.start_container(..).await?; the match arm ends and main returns
\* Ok(()).
MainStart(i) ==
    /\ pc[i] = "mc_start"
    /\ \E ok \in BOOLEAN :
        IF /\ ok
           /\ loc[i].cname \in DOMAIN containers
           /\ containers[loc[i].cname].state = "created"
        THEN /\ containers' = [containers EXCEPT ![loc[i].cname].state = "running"]
             /\ loc' = [loc EXCEPT ![i].start = "ok"]
             /\ Return(i, "Ok")
        ELSE /\ loc' = [loc EXCEPT ![i].start = "failed"]
             /\ Return(i, "RuntimeError")
             /\ UNCHANGED containers
    /\ UNCHANGED <<volumes, imagePresent, clock, cmd>>

----------------------------------------------------------------------------
(* What happens around the orchestrator.                                   *)

\* A second passes.
Tick ==
    /\ clock < ClockStart + MaxTicks
    /\ clock' = clock + 1
    /\ UNCHANGED <<volumes, containers, imagePresent, pc, cmd, loc, result, runnerVars>>

\* The worker process in a started container ends with an exit code.
WorkerExit ==
    /\ \E c \in DOMAIN containers, code \in {0, 1} :
        /\ containers[c].kind = "worker"
        /\ containers[c].state = "running"
        /\ containers' = [containers EXCEPT ![c].state = "exited", ![c].exit = code]
    /\ UNCHANGED <<volumes, imagePresent, clock, pc, cmd, loc, result, runnerVars>>

\* The worker process writes below one of its mounts; the runtime lets a
\* write through only where the mount is not read-only.
WorkerWrites ==
    /\ \E c \in DOMAIN containers :
        /\ containers[c].kind = "worker"
        /\ containers[c].state = "running"
        /\ \E m \in containers[c].mounts :
            /\ ~m.ro
            /\ m.vol \notin containers[c].wrote
            /\ containers' = [containers EXCEPT ![c].wrote = @ \cup {m.vol}]
    /\ UNCHANGED <<volumes, imagePresent, clock, pc, cmd, loc, result, runnerVars>>

\* Another user of the runtime creates a container that mounts a volume.
ExternalAttach ==
    /\ ExternalName \notin DOMAIN containers
    /\ \E v \in volumes \cap ExternalTargets, names \in ReportedNames(ExternalName),
          st \in {"running", "exited"} :
        containers' = containers @@
            (ExternalName :>
                [ state |-> st, mounts |-> {[vol |-> v, target |-> <<"/data">>,
                                             ro |-> FALSE]},
                  cmd |-> <<>>, names |-> names, exit |-> -1,
                  kind |-> "external", owner |-> "none",
                  wrote |-> {} ])
    /\ UNCHANGED <<volumes, imagePresent, clock, pc, cmd, loc, result, runnerVars>>

\* ... and removes it.
ExternalDetach ==
    /\ ExternalName \in DOMAIN containers
    /\ containers' = WithoutContainer(ExternalName)
    /\ UNCHANGED <<volumes, imagePresent, clock, pc, cmd, loc, result, runnerVars>>

Environment == Tick \/ WorkerExit \/ WorkerWrites \/ ExternalAttach \/ ExternalDetach

Step(i) ==
    \/ Start(i)
    \/ CreateVerifySnapshot(i) \/ CreateVerifyNotInUse(i) \/ CreateVerifyExists(i)
    \/ CreateVolume(i)
    \/ RcImage(i) \/ RcPull(i) \/ RcCreate(i) \/ RcStart(i) \/ RcLogs(i)
    \/ RcWait(i) \/ RcRemove(i) \/ RcReturn(i)
    \/ RestoreFind(i) \/ RestoreExists(i) \/ RestoreDropVerify(i)
    \/ RestoreDropRemove(i) \/ RestoreCreateVolume(i)
    \/ RestoreSnapshotDropVerify(i) \/ RestoreSnapshotDropRemove(i)
    \/ DropFind(i) \/ DropVerify(i) \/ DropRemove(i)
    \/ MainInspect(i) \/ MainCreateVolume(i) \/ MainCreateContainer(i)
    \/ MainStart(i)

----------------------------------------------------------------------------
(* Progress reporting inside the worker. The data path reports the size of *)
(* every chunk it has read or written. With ProgressReporter the report is *)
(* a spawned task that sends the size into a channel, and a second spawned *)
(* task receives, accumulates and writes a record; with handle_progress    *)
(* the accumulation happens in the callback. Sizes are u64; the sums stay  *)
(* far below 2^64 for any amount of data that can be read, so additions do *)
(* not wrap. Standard output is taken to accept every write.               *)

ChunkSizes == 0..MaxChunk

min(a, b) == IF a <= b THEN a ELSE b

\* The accumulation without the clamp.
ListenProgressUnclamped(progress, bytes_written, total_size) ==
    progress + bytes_written

\* self.progress = min(self.progress + bytes_written, self.total_size)
ListenProgress(progress, bytes_written, total_size) ==
    min(progress + bytes_written, total_size)

ProgressRecord(progress, total) == [progress |-> progress, total |-> total]

NoTasks == [n \in ChunkSizes |-> 0]

\* What a poll of a stream gives: Pending, an error, or Ready with the
\* number of bytes written (poll_write) or put in the buffer (poll_read).
Pending == [tag |-> "Pending", bytes |-> 0]
PollError == [tag |-> "Err", bytes |-> 0]
Ready(n) == [tag |-> "Ready", bytes |-> n]

\* No poll yet.
NoPoll == [op |-> "none", inner |-> Pending, returned |-> Pending]

\* Bytes a read buffer may hold before poll_read is called.
FilledBefore == 0..1

\* Taking the filled length after the read for the bytes read.
filled_after(before, after) == after

\* let bytes_read = after - before
bytes_read(before, after) == after - before

ProgressOff ==
    /\ rImpl = "reporter"
    /\ rState = "off"
    /\ rTotal = 0
    /\ rReported = 0
    /\ rChunks = 0
    /\ rTasks = NoTasks
    /\ rChannel = <<>>
    /\ rProgress = 0
    /\ rEmitted = <<>>
    /\ rClosed = FALSE
    /\ rPoll = NoPoll

\* ProgressReporter::new(receiver, total_size) and listen(), or the locals
\* of snapshot / restore: the counter starts at 0.
InitProgress ==
    /\ rImpl \in {"reporter", "callback"}
    /\ rState = "running"
    /\ rTotal \in 0..MaxTotal
    /\ rReported = 0
    /\ rChunks = 0
    /\ rTasks = NoTasks
    /\ rChannel = <<>>
    /\ rProgress = 0
    /\ rEmitted = <<>>
    \* the reporter is listening, or the receiver was dropped
    /\ rClosed \in BOOLEAN
    /\ rPoll = NoPoll

\* poll_write / poll_read came back Ready(Ok): a task that will send the
\* number of bytes is spawned, and the data path goes on.
PollReady ==
    /\ rImpl = "reporter"
    /\ rState = "running"
    /\ rChunks < MaxChunks
    /\ \E op \in {"write", "read"}, n \in ChunkSizes, before \in FilledBefore :
        LET poll == Ready(n)
            reported == IF op = "write" THEN poll.bytes
                        ELSE bytes_read(before, before + n)
        IN  /\ rTasks' = [rTasks EXCEPT ![reported] = @ + 1]
            /\ rReported' = rReported + reported
            /\ rPoll' = [op |-> op, inner |-> poll, returned |-> poll]
    /\ rChunks' = rChunks + 1
    /\ UNCHANGED <<rImpl, rState, rTotal, rChannel, rProgress, rEmitted, rClosed, orchVars,
                   workVars, nameVars, hostVars>>

\* poll_write / poll_read came back Pending or with an error: nothing is
\* spawned and the result is handed on.
PollNotReady ==
    /\ rImpl = "reporter"
    /\ rState = "running"
    /\ \E op \in {"write", "read"}, poll \in {Pending, PollError} :
        rPoll' = [op |-> op, inner |-> poll, returned |-> poll]
    /\ UNCHANGED <<rImpl, rState, rTotal, rReported, rChunks, rTasks, rChannel, rProgress,
                   rEmitted, rClosed, orchVars, workVars, nameVars, hostVars>>

\* One of the spawned tasks runs: sender.send(n).await, which completes
\* when the channel has room, or with an error, which .ok() drops, when the
\* receiver is gone. The tasks run in any order.
SendTask ==
    /\ rState = "running"
    /\ rClosed \/ Len(rChannel) < ChannelCapacity
    /\ \E n \in ChunkSizes :
        /\ rTasks[n] > 0
        /\ rTasks' = [rTasks EXCEPT ![n] = @ - 1]
        /\ rChannel' = IF rClosed THEN rChannel ELSE Append(rChannel, n)
    /\ UNCHANGED <<rImpl, rState, rTotal, rReported, rChunks, rProgress, rClosed, rPoll,
                   rEmitted, orchVars, workVars, nameVars, hostVars>>

\* One round of the loop in listen(): a size is received, the counter is
\* advanced and the record is written as one line.
Listen ==
    /\ rState = "running"
    /\ ~rClosed
    /\ rChannel # <<>>
    /\ LET p == ListenProgress(rProgress, Head(rChannel), rTotal)
       IN  /\ rProgress' = p
           /\ rEmitted' = Append(rEmitted, ProgressRecord(p, rTotal))
    /\ rChannel' = Tail(rChannel)
    /\ UNCHANGED <<rImpl, rState, rTotal, rReported, rChunks, rTasks, rClosed, rPoll, orchVars,
                   workVars, nameVars, hostVars>>

\* handle_progress, called by the data path for a chunk: the counter is
\* advanced; the future that would write the record is built by map and
\* dropped without being awaited, so nothing reaches standard output.
handle_progress ==
    /\ rImpl = "callback"
    /\ rState = "running"
    /\ rChunks < MaxChunks
    /\ \E bytes_written \in ChunkSizes :
        /\ rProgress' = min(rProgress + bytes_written, rTotal)
        /\ rReported' = rReported + bytes_written
    /\ rChunks' = rChunks + 1
    /\ UNCHANGED <<rImpl, rState, rTotal, rTasks, rChannel, rEmitted, rClosed, rPoll, orchVars,
                   workVars, nameVars, hostVars>>

\* snapshot / restore returns Ok(()) and the worker process ends. Nothing
\* waits for the spawned tasks: those that have not run are dropped with
\* the runtime, and so is what the channel still holds.
OperationReturns ==
    /\ rState = "running"
    /\ rState' = "finished"
    /\ UNCHANGED <<rImpl, rTotal, rReported, rChunks, rTasks, rChannel, rClosed, rPoll,
                   rProgress, rEmitted, orchVars, workVars, nameVars, hostVars>>

----------------------------------------------------------------------------
(* Snapshot and restore of a directory tree inside the worker. A tree maps *)
(* relative paths to entries; the root directory itself always exists.     *)

Paths == {"a", "d", "d/b", "l"}
Root == ""
Parent(p) == IF p = "d/b" THEN "d" ELSE Root

\* The order of a walk: a directory before what it contains.
WalkOrder == <<"a", "d", "d/b", "l">>

\* Permission bits of an entry, as a set: the nine bits of rwxrwxrwx and
\* the set-user-id bit.
PermissionBits == {"ur", "uw", "ux", "gr", "gw", "gx", "or", "ow", "ox"}
Mode644 == {"ur", "uw", "gr", "or"}
Mode600 == {"ur", "uw"}
Mode4755 == {"suid", "ur", "uw", "ux", "gr", "gx", "or", "ox"}
Mode755 == {"ur", "uw", "ux", "gr", "gx", "or", "ox"}
Mode700 == {"ur", "uw", "ux"}
FileModes == {Mode644, Mode600, Mode4755}
DirModes == {Mode755, Mode700}

\* What open(2) and mkdir(2) ask for when a file or a directory is made
\* with File::create or create_dir_all, before the umask is taken off.
FileCreateMode == {"ur", "uw", "gr", "gw", "or", "ow"}
DirCreateMode == PermissionBits
Umask022 == {"gw", "ow"}
Umask077 == {"gr", "gw", "gx", "or", "ow", "ox"}
Umasks == {Umask022, Umask077}

FileEntry(content) == [type |-> "file", data |-> content, mode |-> Mode644]
DirEntry == [type |-> "dir", data |-> "", mode |-> Mode755]
SymlinkEntry(target) == [type |-> "symlink", data |-> target, mode |-> PermissionBits]
WithMode(e, mode) == [e EXCEPT !.mode = mode]

Contents == {"", "x"}
LinkTargets == {"a", "zz"}
FileSize(content) == IF content = "" THEN 0 ELSE 1

EmptyTree == [p \in {} |-> DirEntry]

\* The trees the source directory is drawn from: files of zero and non-zero
\* size, an empty or non-empty directory, a symlink to a file or to nothing.
Trees ==
    { t \in UNION { [D -> {WithMode(FileEntry(c), m) : c \in Contents, m \in FileModes}
                          \cup {WithMode(DirEntry, m) : m \in DirModes}
                          \cup {SymlinkEntry(l) : l \in LinkTargets}] :
                    D \in SUBSET Paths } :
        /\ \A p \in DOMAIN t :
            /\ (p \in {"a", "d/b"}) => t[p].type = "file"
            /\ p = "d" => t[p].type = "dir"
            /\ p = "l" => t[p].type = "symlink"
            /\ p = "d/b" => t[p] = FileEntry("x")
            /\ Parent(p) # Root => Parent(p) \in DOMAIN t }

IsDir(tree, p) == p = Root \/ (p \in DOMAIN tree /\ tree[p].type = "dir")

Put(tree, p, e) == [q \in DOMAIN tree \cup {p} |-> IF q = p THEN e ELSE tree[q]]

Done(tree) == [ok |-> TRUE, tree |-> tree]
Failed(tree) == [ok |-> FALSE, tree |-> tree]

\* WalkDir::new(dir).follow_links(false): the paths below the root.
WalkDir(tree) == SelectSeq(WalkOrder, LAMBDA p : p \in DOMAIN tree)

RECURSIVE SumSizes(_, _)
SumSizes(tree, walk) ==
    IF walk = <<>> THEN 0
    ELSE (IF tree[Head(walk)].type = "file" THEN FileSize(tree[Head(walk)].data)
          ELSE 0) + SumSizes(tree, Tail(walk))

calculate_total_size(tree) == SumSizes(tree, WalkDir(tree))

\* The loop of copy_dir: a symlink is made anew with the target read from
\* the source, a directory is created, a file is created and filled.
RECURSIVE CopyEntries(_, _, _, _)
CopyEntries(src, walk, dest, umask) ==
    IF walk = <<>> THEN Done(dest)
    ELSE LET p == Head(walk)
             e == src[p]
         IN  IF ~IsDir(dest, Parent(p)) THEN Failed(dest)
             ELSE IF e.type = "symlink"
             THEN IF p \in DOMAIN dest THEN Failed(dest)
                  ELSE CopyEntries(src, Tail(walk), Put(dest, p, SymlinkEntry(e.data)),
                                   umask)
             ELSE IF e.type = "dir"
             THEN IF p \in DOMAIN dest /\ dest[p].type # "dir" THEN Failed(dest)
                  ELSE CopyEntries(src, Tail(walk),
                                   IF p \in DOMAIN dest THEN dest
                                   ELSE Put(dest, p, WithMode(DirEntry,
                                                              DirCreateMode \ umask)),
                                   umask)
             ELSE IF p \in DOMAIN dest /\ dest[p].type = "dir" THEN Failed(dest)
                  ELSE CopyEntries(src, Tail(walk),
                                   Put(dest, p, WithMode(FileEntry(e.data),
                                            IF p \in DOMAIN dest THEN dest[p].mode
                                            ELSE FileCreateMode \ umask)),
                                   umask)

copy_dir(dir_to_copy, destination_dir, umask) ==
    CopyEntries(dir_to_copy, WalkDir(dir_to_copy), destination_dir, umask)

\* The entries compress_dir appends to the tar stream, in walk order.
\* The header of a file or a directory carries the mode of the source.
TarEntry(p, e) == [path |-> p, type |-> e.type, data |-> e.data, mode |-> e.mode]

\* What unpacking an entry leaves: the mode of the header without the bits
\* above rwxrwxrwx; a symlink has the mode of every symlink.
Unpacked(e) ==
    [type |-> e.type, data |-> e.data,
     mode |-> IF e.type = "symlink" THEN PermissionBits
              ELSE e.mode \cap PermissionBits]

RECURSIVE TarEntries(_, _)
TarEntries(tree, walk) ==
    IF walk = <<>> THEN <<>>
    ELSE <<TarEntry(Head(walk), tree[Head(walk)])>> \o TarEntries(tree, Tail(walk))

\* The bytes of the tar stream. An entry is a header of one block and, for
\* a file, its content filled up to whole blocks; Builder::finish writes
\* two blocks of zeros.
TarBlock == 512
Padded(n) == ((n + TarBlock - 1) \div TarBlock) * TarBlock

RECURSIVE EntriesSize(_)
EntriesSize(entries) ==
    IF entries = <<>> THEN 0
    ELSE TarBlock
         + (IF Head(entries).type = "file" THEN Padded(FileSize(Head(entries).data))
            ELSE 0)
         + EntriesSize(Tail(entries))

\* What the ProgressWriter between the tar builder and the encoder counts.
TarStreamSize(entries) == EntriesSize(entries) + 2 * TarBlock

\* What the ProgressReader between the decoder and the archive counts: the
\* entries and the blocks of zeros the archive reads to find the end.
EndBlocksRead == {1, 2}
TarReadSize(entries, blocks) == EntriesSize(entries) + blocks * TarBlock

\* Builder::append_dir_all(".", source) of runner main.rs: the builder
\* follows symlinks, so a link is archived as what it points to, and a link
\* that points to nothing fails the walk.
Followed(tree, p) ==
    IF tree[p].type # "symlink" THEN tree[p]
    ELSE IF tree[p].data \in DOMAIN tree THEN tree[tree[p].data]
    ELSE [type |-> "missing", data |-> "", mode |-> {}]

RECURSIVE FollowedEntries(_, _)
FollowedEntries(tree, walk) ==
    IF walk = <<>> THEN <<>>
    ELSE <<TarEntry(Head(walk), Followed(tree, Head(walk)))>>
            \o FollowedEntries(tree, Tail(walk))

HasMissing(entries) == \E k \in 1..Len(entries) : entries[k].type = "missing"

\* Paths an archive made by someone else may carry besides the above.
HostilePaths == {"/x", "../x", "d/../../x"}

\* Path::components of an entry path; "/" stands for the root component.
PathComponents(p) ==
    CASE p = "d/b" -> <<"d", "b">>
      [] p = "/x" -> <<"/", "x">>
      [] p = "../x" -> <<"..", "x">>
      [] p = "d/../../x" -> <<"d", "..", "..", "x">>
      [] OTHER -> <<p>>

\* Whether destination_dir.join(path) names a place outside destination_dir:
\* an absolute path replaces destination_dir, and ".." steps out of it once
\* more ".." than names have been passed. depth counts the names passed.
RECURSIVE LeavesDir(_, _)
LeavesDir(components, depth) ==
    IF components = <<>> THEN FALSE
    ELSE IF Head(components) = "/" THEN TRUE
    ELSE IF Head(components) = ".."
    THEN depth = 0 \/ LeavesDir(Tail(components), depth - 1)
    ELSE LeavesDir(Tail(components), depth + 1)

EscapesDestination(p) == LeavesDir(PathComponents(p), 0)

\* The loop of decompress_tar: each entry is unpacked with Entry::unpack at
\* destination_dir.join(entry.path()), whatever the path is. The tree
\* returned is keyed by the entry paths; a key that escapes stands for the
\* place outside the destination that the join names.
RECURSIVE UnpackEntries(_, _)
UnpackEntries(entries, dest) ==
    IF entries = <<>> THEN Done(dest)
    ELSE LET e == Head(entries)
         IN  IF ~EscapesDestination(e.path) /\ ~IsDir(dest, Parent(e.path))
             THEN Failed(dest)
             ELSE UnpackEntries(Tail(entries),
                                Put(dest, e.path, Unpacked(e)))

\* Archive::unpack(target) of runner main.rs, which unpacks every entry
\* inside target: an entry with ".." in its path is skipped and a leading
\* root is dropped.
RECURSIVE UnpackEntriesIn(_, _)
UnpackEntriesIn(entries, dest) ==
    IF entries = <<>> THEN Done(dest)
    ELSE LET e == Head(entries)
             c == PathComponents(e.path)
         IN  IF \E k \in 1..Len(c) : c[k] = ".."
             THEN UnpackEntriesIn(Tail(entries), dest)
             ELSE IF Head(c) = "/"
             THEN UnpackEntriesIn(Tail(entries),
                                  Put(dest, c[Len(c)], Unpacked(e)))
             ELSE IF ~IsDir(dest, Parent(e.path)) THEN Failed(dest)
             ELSE UnpackEntriesIn(Tail(entries),
                                  Put(dest, e.path, Unpacked(e)))

\* fs_extra::dir::copy with content_only: files are copied with fs::copy,
\* which reads through symlinks.
RECURSIVE CopyFollowing(_, _, _, _)
CopyFollowing(src, walk, dest, umask) ==
    IF walk = <<>> THEN Done(dest)
    ELSE LET e == Followed(src, Head(walk))
         IN  IF e.type = "missing" THEN Failed(dest)
             ELSE CopyFollowing(src, Tail(walk),
                    Put(dest, Head(walk),
                        IF e.type = "dir" THEN WithMode(e, DirCreateMode \ umask)
                        ELSE e),
                    umask)

\* The metadata file of a snapshot directory: absent, or its text.
NoFile == [exists |-> FALSE, content |-> <<>>]
TextFile(content) == [exists |-> TRUE, content |-> content]

TotalSizeKey == <<"{", "\"total_size\"", ":">>

\* serde_json::to_string(&SnapshotMetadata { total_size })
to_string(total_size) == TotalSizeKey \o FormatNat(total_size) \o <<"}">>

\* serde_json::from_str::<SnapshotMetadata>: an object with the field
\* total_size holding an unsigned number; anything else is an error.
from_str(content) ==
    LET n == Len(content)
        number == SubSeq(content, Len(TotalSizeKey) + 1, n - 1)
    IN  IF /\ n >= Len(TotalSizeKey) + 2
           /\ SubSeq(content, 1, Len(TotalSizeKey)) = TotalSizeKey
           /\ content[n] = "}"
           /\ \A j \in 1..Len(number) : IsDigit(number[j])
        THEN [tag |-> "Ok", val |-> ParseNat(number)]
        ELSE Err("Json")

\* A read that takes a file it cannot read or parse for a total of 0.
read_or_default(file) ==
    IF file.exists /\ from_str(file.content).tag = "Ok"
    THEN from_str(file.content)
    ELSE [tag |-> "Ok", val |-> 0]

\* SnapshotMetadata::write and SnapshotMetadata::read
SnapshotMetadata_write(total_size) == TextFile(to_string(total_size))
SnapshotMetadata_read(file) ==
    IF ~file.exists THEN Err("Io") ELSE from_str(file.content)

\* The snapshot directory: the metadata file, the archive file (whether it
\* exists, the tar entries that reached it, whether the compressed stream
\* was ended) and the sub-directory of copied files.
NoSnap ==
    [ meta |-> NoFile, tar_zst |-> FALSE, entries |-> <<>>, ended |-> FALSE,
      files_dir |-> FALSE, files |-> EmptyTree, given |-> FALSE ]

WorkerOff ==
    /\ wEntry = "library"
    /\ wCompress = FALSE
    /\ wTree = EmptyTree
    /\ wSnap = NoSnap
    /\ wRestored = EmptyTree
    /\ wPc = "off"
    /\ wResult = "none"
    /\ wBranch = "none"
    /\ wCounted = 0

\* Archives that were not written by this program: an entry with an
\* absolute path or with ".." in it, alone or after an ordinary entry.
GivenArchives ==
    {<<TarEntry(p, FileEntry("x"))>> : p \in HostilePaths}
        \cup {<<TarEntry("d", DirEntry), TarEntry(p, FileEntry("x"))>> :
                    p \in HostilePaths}

\* Snapshot directories found as they are at a restore.
\* ... with a metadata file that is absent, empty, not JSON, an object
\* without the field, or a negative total; around an archive or a files
\* directory that is in order.
BadMetadata ==
    { NoFile, TextFile(<<>>), TextFile(<<"x">>), TextFile(<<"{", "}">>),
      TextFile(TotalSizeKey \o <<"-", "1", "}">>) }
SoundArchive == <<TarEntry("d", DirEntry), TarEntry("a", FileEntry("x"))>>
SoundFiles == Put(Put(EmptyTree, "d", DirEntry), "a", FileEntry("x"))

GivenSnapshots ==
    {[NoSnap EXCEPT !.given = TRUE, !.meta = SnapshotMetadata_write(1),
                    !.tar_zst = TRUE, !.entries = a, !.ended = TRUE] :
        a \in GivenArchives}
    \cup {[NoSnap EXCEPT !.given = TRUE, !.meta = m,
                         !.tar_zst = TRUE, !.entries = SoundArchive, !.ended = TRUE] :
        m \in BadMetadata \cup {SnapshotMetadata_write(1)}}
    \cup {[NoSnap EXCEPT !.given = TRUE, !.meta = m,
                         !.files_dir = TRUE, !.files = SoundFiles] :
        m \in BadMetadata \cup {SnapshotMetadata_write(1)}}

\* A source directory, an empty snapshot directory and an empty restore
\* destination; or a snapshot directory from elsewhere and an empty restore
\* destination.
InitWorker ==
    /\ wEntry \in {"library", "main"}
    /\ wCompress \in BOOLEAN
    /\ wRestored = EmptyTree
    /\ wResult = "none"
    /\ wBranch = "none"
    /\ wCounted = 0
    /\ \/ /\ wTree \in Trees
          /\ wSnap = NoSnap
          /\ wPc = "snapshot"
       \/ /\ wTree = EmptyTree
          /\ wCompress = TRUE
          /\ wSnap \in GivenSnapshots
          /\ wPc = "restore"

WorkerFails ==
    /\ wPc' = "done"
    /\ wResult' = "Err"

\* snapshot(source_path, snapshot_path, compress) of snapshot.rs. In the
\* compressed case the ZstdEncoder and the BufWriter below it are dropped
\* when the tar builder has finished, without shutdown or flush: what has
\* reached the file by then is some prefix of the stream, and the stream is
\* not ended.
SnapshotLibrary ==
    /\ wEntry = "library"
    /\ wPc = "snapshot"
    /\ IF wCompress
       THEN /\ \E k \in 0..Len(WalkDir(wTree)) :
                wSnap' = [wSnap EXCEPT
                            !.meta = SnapshotMetadata_write(calculate_total_size(wTree)),
                            !.tar_zst = TRUE,
                            !.entries = SubSeq(TarEntries(wTree, WalkDir(wTree)), 1, k),
                            !.ended = FALSE]
            /\ wCounted' = TarStreamSize(TarEntries(wTree, WalkDir(wTree)))
            /\ wPc' = "restore"
            /\ wResult' = wResult
       ELSE \E umask \in Umasks :
            LET copied == copy_dir(wTree, EmptyTree, umask)
            IN  /\ wSnap' = [wSnap EXCEPT
                                !.meta = SnapshotMetadata_write(calculate_total_size(wTree)),
                                !.files_dir = TRUE,
                                !.files = copied.tree]
                /\ wCounted' = calculate_total_size(copied.tree)
                /\ IF copied.ok THEN wPc' = "restore" /\ wResult' = wResult
                   ELSE WorkerFails
    /\ UNCHANGED <<wEntry, wCompress, wTree, wRestored, wBranch, orchVars, progVars, nameVars,
                   hostVars>>

\* restore(snapshot_path, restore_path) of snapshot.rs. An archive whose
\* stream was not ended gives the entries that reached the file and then an
\* error; when nothing reached the file, the decoder may also see a plain
\* end of input.
RestoreLibrary ==
    /\ wEntry = "library"
    /\ wPc = "restore"
    /\ IF SnapshotMetadata_read(wSnap.meta).tag = "Err"
       THEN WorkerFails /\ wRestored' = wRestored /\ wBranch' = wBranch
                        /\ wCounted' = wCounted
       ELSE IF wSnap.tar_zst
       THEN LET unpacked == UnpackEntries(wSnap.entries, wRestored)
            IN  /\ wBranch' = "archive"
                /\ wRestored' = unpacked.tree
                /\ wPc' = "done"
                /\ \E clean_end \in BOOLEAN :
                    wResult' = IF /\ unpacked.ok
                                  /\ \/ wSnap.ended
                                     \/ wSnap.entries = <<>> /\ clean_end
                               THEN "Ok" ELSE "Err"
                /\ \E blocks \in EndBlocksRead :
                    wCounted' = TarReadSize(wSnap.entries,
                                            IF wSnap.ended THEN blocks ELSE 0)
       ELSE \E umask \in Umasks :
            LET copied == copy_dir(wSnap.files, wRestored, umask)
            IN  /\ wBranch' = "files"
                /\ wRestored' = copied.tree
                /\ wPc' = "done"
                /\ wResult' = IF wSnap.files_dir /\ copied.ok THEN "Ok" ELSE "Err"
                /\ wCounted' = IF wSnap.files_dir
                               THEN calculate_total_size(copied.tree) ELSE 0
    /\ UNCHANGED <<wEntry, wCompress, wTree, wSnap, orchVars, progVars, nameVars, hostVars>>

\* Commands::Snapshot of runner main.rs.
SnapshotMain ==
    /\ wEntry = "main"
    /\ wPc = "snapshot"
    /\ IF wCompress
       THEN LET entries == FollowedEntries(wTree, WalkDir(wTree))
            IN  IF HasMissing(entries)
                THEN /\ wSnap' = [wSnap EXCEPT !.tar_zst = TRUE, !.ended = TRUE]
                     /\ WorkerFails
                ELSE /\ wSnap' = [wSnap EXCEPT !.tar_zst = TRUE, !.ended = TRUE,
                                               !.entries = entries]
                     /\ wPc' = "restore"
                     /\ wResult' = wResult
       ELSE \E umask \in Umasks :
            LET copied == CopyFollowing(wTree, WalkDir(wTree), EmptyTree, umask)
            IN  /\ wSnap' = [wSnap EXCEPT !.files_dir = TRUE, !.files = copied.tree]
                /\ IF copied.ok THEN wPc' = "restore" /\ wResult' = wResult
                   ELSE WorkerFails
    /\ UNCHANGED <<wEntry, wCompress, wTree, wRestored, wBranch, wCounted, orchVars, progVars,
                   nameVars, hostVars>>

SNAPSHOT_TAR_ZST == "snapshot.tar.zst"

\* Commands::Restore of runner main.rs: the archive is looked for in the
\* restore destination, target.join(SNAPSHOT_TAR_ZST).exists().
RestoreMain ==
    /\ wEntry = "main"
    /\ wPc = "restore"
    /\ LET is_compressed == SNAPSHOT_TAR_ZST \in DOMAIN wRestored
       IN  IF is_compressed
           THEN LET unpacked == UnpackEntriesIn(wSnap.entries, wRestored)
                IN  /\ wBranch' = "archive"
                    /\ wRestored' = unpacked.tree
                    /\ wResult' = IF wSnap.tar_zst /\ unpacked.ok THEN "Ok" ELSE "Err"
           ELSE \E umask \in Umasks :
                LET copied == CopyFollowing(wSnap.files, WalkDir(wSnap.files),
                                            wRestored, umask)
                IN  /\ wBranch' = "files"
                    /\ wRestored' = IF wSnap.files_dir THEN copied.tree ELSE wRestored
                    /\ wResult' = IF wSnap.files_dir /\ copied.ok THEN "Ok" ELSE "Err"
    /\ wPc' = "done"
    /\ UNCHANGED <<wEntry, wCompress, wTree, wSnap, wCounted, orchVars, progVars, nameVars,
                   hostVars>>

----------------------------------------------------------------------------
(* Naming of one snapshot volume: the name is formatted from an identity   *)
(* and taken apart again; other volume names are put before the filter of  *)
(* find_snapshot_volume_names.                                             *)

NameAlphabet == {"1", "-", "a"}

IdentityNames ==
    {<<>>} \cup {<<x>> : x \in NameAlphabet}
           \cup {<<x, y>> : x \in NameAlphabet, y \in NameAlphabet}
           \cup {FormatNat(ClockStart) \o <<"-", "a">>}

\* Timestamps of ten digits and more: the smallest, the time of the model's
\* clock, the last one a date-time holds, 10^13 and i64::MAX.
IdentityTimestamps ==
    { I64(LimbBase), I64(ClockStart),
      [neg |-> FALSE, mag |-> CHRONO_MAX],
      [neg |-> FALSE, mag |-> <<10000, 0>>],
      [neg |-> FALSE, mag |-> I64_MAX] }

\* Volume names that do not follow the pattern.
ForeignNames ==
    { VolData, ShortStamped, NotAnchored,
      VsnapDash \o FormatNat(ClockStart),
      VsnapDash \o FormatNat(ClockStart) \o <<"a">>,
      VsnapDash \o <<"-">> \o FormatNat(ClockStart) \o <<"-", "a">>,
      <<"V">> \o Tail(OldSnapshot1) }

NoResult == [tag |-> "none"]

NamingOff ==
    naming = [ pc |-> "off", ts |-> I64(0), name |-> <<>>, volume |-> <<>>,
               stripped |-> <<>>, extracted |-> NoResult, listed |-> <<>> ]

InitNaming ==
    \E ts \in IdentityTimestamps, name \in IdentityNames :
        naming = [ pc |-> "identity", ts |-> ts, name |-> name, volume |-> <<>>,
                   stripped |-> <<>>, extracted |-> NoResult, listed |-> <<>> ]

\* get_snapshot_volume_name(timestamp, name)
Encode ==
    /\ naming.pc = "identity"
    /\ naming' = [naming EXCEPT
                    !.pc = "encoded",
                    !.volume = get_snapshot_volume_name(naming.ts, naming.name)]
    /\ UNCHANGED <<orchVars, progVars, workVars, hostVars>>

\* The volume name goes through find_snapshot_volume_names,
\* strip_snapshot_prefix and extract_snapshot_datetime.
Decode ==
    /\ naming.pc = "encoded"
    /\ naming' = [naming EXCEPT
                    !.pc = "decoded",
                    !.listed = find_snapshot_volume_names(<<naming.volume>>),
                    !.stripped = strip_snapshot_prefix(naming.volume),
                    !.extracted = extract_snapshot_datetime(naming.volume)]
    /\ UNCHANGED <<orchVars, progVars, workVars, hostVars>>

\* A volume that some other tool has named goes through the same functions.
Recognize ==
    /\ naming.pc = "identity"
    /\ \E v \in ForeignNames :
        naming' = [naming EXCEPT
                    !.pc = "recognized",
                    !.volume = v,
                    !.listed = find_snapshot_volume_names(<<v>>),
                    !.stripped = strip_snapshot_prefix(v),
                    !.extracted = extract_snapshot_datetime(v)]
    /\ UNCHANGED <<orchVars, progVars, workVars, hostVars>>

----------------------------------------------------------------------------
(* The orchestrator following the log of its worker (docker.rs 220-244,   *)
(* 277-305).                                                               *)

MaxLogItems == 3
MaxRecordTotal == 2

ProgressKey == <<"{", "\"progress\"", ":">>
TotalKey == <<",", "\"total\"", ":">>

\* serde_json::to_string(&Progress { progress, total }), as the worker
\* writes it
ProgressJson(progress, total) ==
    ProgressKey \o FormatNat(progress) \o TotalKey \o FormatNat(total) \o <<"}">>

\* ... followed by output.push(b'\n'): one line of the worker's output
NewLine == "\n"
ProgressLine(progress, total) == ProgressJson(progress, total) \o <<NewLine>>

\* JSON text without the white space around it
RECURSIVE TrimLeft(_)
TrimLeft(m) == IF m # <<>> /\ Head(m) = NewLine THEN TrimLeft(Tail(m)) ELSE m
RECURSIVE TrimRight(_)
TrimRight(m) ==
    IF m # <<>> /\ m[Len(m)] = NewLine THEN TrimRight(SubSeq(m, 1, Len(m) - 1)) ELSE m
Trim(m) == TrimRight(TrimLeft(m))

AllDigits(d) == d # <<>> /\ \A j \in 1..Len(d) : IsDigit(d[j])

\* Taking every message that begins like a record for one, with the total
\* set to the progress when the rest is not there.
from_slice_partial(message) ==
    IF /\ Len(message) > Len(ProgressKey)
       /\ SubSeq(message, 1, Len(ProgressKey)) = ProgressKey
       /\ IsDigit(message[Len(ProgressKey) + 1])
    THEN Some(ProgressRecord(DigitValue(message[Len(ProgressKey) + 1]),
                             DigitValue(message[Len(ProgressKey) + 1])))
    ELSE None

\* serde_json::from_slice::<Progress>(&message).ok(): the record when the
\* message is an object with the two numbers, None otherwise.
from_slice(bytes) ==
    LET message == Trim(bytes)
        n == Len(message)
        a == Len(ProgressKey)
        b == Len(TotalKey)
        Splits == { k \in a + 1 .. n - b - 2 :
                      /\ SubSeq(message, 1, a) = ProgressKey
                      /\ AllDigits(SubSeq(message, a + 1, k))
                      /\ SubSeq(message, k + 1, k + b) = TotalKey
                      /\ AllDigits(SubSeq(message, k + b + 1, n - 1))
                      /\ message[n] = "}" }
    IN  IF Splits = {} THEN None
        ELSE LET k == CHOOSE k \in Splits : TRUE
             IN  Some(ProgressRecord(ParseNat(SubSeq(message, a + 1, k)),
                                     ParseNat(SubSeq(message, k + b + 1, n - 1))))

StdOut(message) == [kind |-> "StdOut", message |-> message]
StdErr(message) == [kind |-> "StdErr", message |-> message]
StreamError == [kind |-> "Err", message |-> <<>>]

\* What the log stream may yield: frames that hold one line of the worker,
\* and other things: an empty message, text, the first part of a line and
\* the rest of it, an object without the total, two lines in one frame, a
\* line on the error output, an error of the stream.
RecordMessages ==
    { ProgressLine(p, t) : p \in 0..MaxRecordTotal, t \in {MaxRecordTotal} }
LineStart == ProgressKey \o <<"1">>
LineRest == TotalKey \o FormatNat(MaxRecordTotal) \o <<"}", NewLine>>
TwoLines == ProgressLine(1, MaxRecordTotal) \o ProgressLine(MaxRecordTotal, MaxRecordTotal)
OtherMessages ==
    { <<>>, <<"x">>, LineStart, LineRest, ProgressKey \o <<"1", "}">>, TwoLines }
LogItems ==
    { StdOut(m) : m \in RecordMessages \cup OtherMessages }
        \cup { StdErr(ProgressLine(1, MaxRecordTotal)), StreamError }

RECURSIVE SeqsUpTo(_, _)
SeqsUpTo(S, n) ==
    IF n = 0 THEN {<<>>}
    ELSE SeqsUpTo(S, n - 1) \cup
         { Append(q, x) : q \in {r \in SeqsUpTo(S, n - 1) : Len(r) = n - 1}, x \in S }

\* ProgressBar::new(0)
create_progress_bar ==
    [position |-> 0, length |-> 0, finished |-> FALSE, shown |-> TRUE]

HostOff ==
    /\ hItems = <<>>
    /\ hNext = 1
    /\ hBar = create_progress_bar
    /\ hPc = "off"
    /\ hResult = "none"
    /\ hUnread = <<>>

\* The container has been started and its log is about to be followed.
InitHost ==
    /\ hItems \in SeqsUpTo(LogItems, MaxLogItems)
    /\ hNext = 1
    /\ hBar = create_progress_bar
    /\ hPc = "logs"
    /\ hResult = "none"
    \* a stream that an error has ended may have left output undelivered
    /\ hUnread \in {<<>>} \cup
            IF hItems # <<>> /\ hItems[Len(hItems)] = StreamError
            THEN {<<m>> : m \in RecordMessages} ELSE {}

\* handle_progress(log, &progress_bar) of docker.rs
HandleLog(log, progress_bar) ==
    IF log.kind = "StdOut" /\ from_slice(log.message).tag = "Some"
    THEN LET progress == from_slice(log.message).val
             sized == [progress_bar EXCEPT !.length = progress.total]
             placed == [sized EXCEPT !.position = progress.progress]
         IN  IF progress.progress = progress.total
             THEN [placed EXCEPT !.position = placed.length, !.finished = TRUE]
             ELSE placed
    ELSE progress_bar

\* One item of docker.logs(..).for_each(handle_progress).
FollowLog ==
    /\ hPc = "logs"
    /\ hNext <= Len(hItems)
    /\ hBar' = HandleLog(hItems[hNext], hBar)
    /\ hNext' = hNext + 1
    /\ UNCHANGED <<hItems, hPc, hResult, hUnread, orchVars, progVars, workVars, nameVars>>

\* The stream has ended; wait_container follows.
LogEnds ==
    /\ hPc = "logs"
    /\ hNext > Len(hItems)
    /\ hPc' = "wait"
    /\ UNCHANGED <<hItems, hNext, hBar, hResult, hUnread, orchVars, progVars, workVars,
                   nameVars>>

\* What becomes of a ProgressBar that is dropped: one that was finished
\* stays as it is; one that was not is finished by the library, which puts
\* the position at the length and, by the finish behaviour in force, leaves
\* the bar on the screen or clears it.
Dropped(progress_bar) ==
    IF progress_bar.finished THEN {progress_bar}
    ELSE { [progress_bar EXCEPT !.position = progress_bar.length,
                                !.finished = TRUE, !.shown = leave] :
                leave \in BOOLEAN }

\* wait_container; the closure ends and progress_bar is dropped;
\* remove_container, Ok(())
HostReturns ==
    /\ hPc = "wait"
    /\ hPc' = "done"
    /\ hBar' \in Dropped(hBar)
    /\ hResult' = "Ok"
    /\ UNCHANGED <<hItems, hNext, hUnread, orchVars, progVars, workVars, nameVars>>

----------------------------------------------------------------------------
(* The specifications.                                                     *)

\* One invocation of the command line tool, and what happens around it.
Next == Step("i1") \/ Environment

Init == InitOrch /\ ProgressOff /\ WorkerOff /\ NamingOff /\ HostOff

Spec == Init /\ [][Next]_vars

\* No command is running and nothing exists in the runtime.
OrchOff ==
    /\ volumes = {}
    /\ containers = [c \in {} |-> NoCommand]
    /\ imagePresent = FALSE
    /\ clock = ClockStart
    /\ pc = [i \in Invocations |-> "idle"]
    /\ cmd = [i \in Invocations |-> NoCommand]
    /\ loc = [i \in Invocations |-> InitLoc]
    /\ result = [i \in Invocations |-> "none"]

\* One operation of the worker, seen from its progress reporting.
NextProgress ==
    PollReady \/ PollNotReady \/ SendTask \/ Listen \/ handle_progress \/ OperationReturns

InitProgressSpec == OrchOff /\ InitProgress /\ WorkerOff /\ NamingOff /\ HostOff

SpecProgress == InitProgressSpec /\ [][NextProgress]_vars

\* One snapshot of a tree by the worker, and the restore of it.
NextWorker == SnapshotLibrary \/ RestoreLibrary \/ SnapshotMain \/ RestoreMain

InitWorkerSpec == OrchOff /\ ProgressOff /\ InitWorker /\ NamingOff /\ HostOff

SpecWorker == InitWorkerSpec /\ [][NextWorker]_vars

\* One identity named and read back, or one foreign name looked at.
NextNaming == Encode \/ Decode \/ Recognize

InitNamingSpec == OrchOff /\ ProgressOff /\ WorkerOff /\ InitNaming /\ HostOff

SpecNaming == InitNamingSpec /\ [][NextNaming]_vars

\* Two invocations that have both found snapshot db1 and made their restore
\* volumes, one restoring into a new volume and one into the user volume,
\* each about to call run_command.
RestoreInto(target) ==
    [op |-> "restore", name |-> NameDb1, target |-> target,
     drop |-> FALSE, answer |-> FALSE]

InitTwo ==
    /\ volumes = {OldSnapshot1, VolData, VolRestore}
    /\ containers = [c \in {} |-> NoCommand]
    /\ imagePresent \in BOOLEAN
    /\ clock = ClockStart
    /\ pc = [i \in Invocations |-> "rc_image"]
    /\ cmd = [i \in Invocations |->
                IF i = "i1" THEN RestoreInto(VolRestore) ELSE RestoreInto(VolData)]
    /\ loc = [i \in Invocations |-> [InitLoc EXCEPT !.svol = OldSnapshot1]]
    /\ result = [i \in Invocations |-> "none"]

RunCommand(i) ==
    \/ RcImage(i) \/ RcPull(i) \/ RcCreate(i) \/ RcStart(i) \/ RcLogs(i)
    \/ RcWait(i) \/ RcRemove(i) \/ RcReturn(i)

NextTwo == RunCommand("i1") \/ RunCommand("i2") \/ Tick \/ WorkerExit

InitTwoSpec == InitTwo /\ ProgressOff /\ WorkerOff /\ NamingOff /\ HostOff

SpecTwo == InitTwoSpec /\ [][NextTwo]_vars

\* Two invocations of create with the same snapshot name and no snapshot
\* of that name yet, each about to make its first check.
CreateOfDb1 == [op |-> "create", source |-> VolData, name |-> NameDb1, compress |-> FALSE]

InitCreates ==
    /\ volumes = {VolData}
    /\ containers = [c \in {} |-> NoCommand]
    /\ imagePresent \in BOOLEAN
    /\ clock = ClockStart
    /\ pc = [i \in Invocations |-> "c_verify"]
    /\ cmd = [i \in Invocations |-> CreateOfDb1]
    /\ loc = [i \in Invocations |-> InitLoc]
    /\ result = [i \in Invocations |-> "none"]

CreateCommand(i) ==
    \/ CreateVerifySnapshot(i) \/ CreateVerifyNotInUse(i) \/ CreateVerifyExists(i)
    \/ CreateVolume(i) \/ RunCommand(i)

NextCreates == CreateCommand("i1") \/ CreateCommand("i2") \/ Tick \/ WorkerExit

InitCreatesSpec == InitCreates /\ ProgressOff /\ WorkerOff /\ NamingOff /\ HostOff

SpecCreates == InitCreatesSpec /\ [][NextCreates]_vars

\* One log followed by the orchestrator.
NextHost == FollowLog \/ LogEnds \/ HostReturns

InitHostSpec == OrchOff /\ ProgressOff /\ WorkerOff /\ NamingOff /\ InitHost

SpecHost == InitHostSpec /\ [][NextHost]_vars

----------------------------------------------------------------------------
(* Properties of run_command.                                              *)

\* run_command returns to its caller in this step.
RunCommandReturns(i) == pc[i] = "rc_remove" /\ pc'[i] = "rc_ret"

\* One of the steps before the removal failed.
EarlierStepFailed(i) ==
    \/ loc[i].create = "failed"
    \/ loc[i].start = "failed"
    \/ loc[i].wait = "failed"

\* C1: cleanup guarantee. Whenever run_command returns - the worker exited
\* with 0 or not, or creating, starting, following or waiting failed - and
\* the runtime answered the removal call, no container of the generated
\* name exists.
C1_NoContainerAtReturn ==
    [][\A i \in Invocations :
        (RunCommandReturns(i) /\ loc'[i].remove # "failed")
            => loc[i].cname \notin DOMAIN containers']_vars

\* C2: the worker's outcome is surfaced. run_command returns Ok exactly
\* when the container was created, started and waited for and the worker
\* exited with code 0, and an error otherwise.
C2_OutcomeSurfaced ==
    \A i \in Invocations :
        pc[i] = "rc_ret" =>
            ( loc[i].rc = "Ok" <=>
                /\ loc[i].create = "ok"
                /\ loc[i].start = "ok"
                /\ loc[i].wait = "ok"
                /\ loc[i].exit = 0 )

\* C3: when an earlier step failed and the removal failed as well,
\* run_command returns the earlier error, not success.
C3_OriginalErrorKept ==
    \A i \in Invocations :
        ( /\ pc[i] = "rc_ret"
          /\ EarlierStepFailed(i)
          /\ loc[i].remove \in {"failed", "refused"} )
            => loc[i].rc = "RuntimeError"

----------------------------------------------------------------------------
(* Properties of naming and discovery.                                     *)

\* The naming convention, stated on its own: v is "vsnap-", a run of at
\* least ten digits, "-", and then the snapshot name n.
IsSnapshotOf(v, n) ==
    \E k \in MinTimestampDigits..Len(v) :
        /\ Len(v) = Len(VsnapDash) + k + 1 + Len(n)
        /\ SubSeq(v, 1, Len(VsnapDash)) = VsnapDash
        /\ \A j \in 1..k : IsDigit(v[Len(VsnapDash) + j])
        /\ v[Len(VsnapDash) + k + 1] = "-"
        /\ SubSeq(v, Len(VsnapDash) + k + 2, Len(v)) = n

SnapshotsNamed(vols, n) == {v \in vols : IsSnapshotOf(v, n)}

\* Resolving n against the volumes vols gives r, in whatever order the
\* runtime lists them.
ResolvesTo(vols, n, r) ==
    \A listing \in ListVolumesFiltered(vols) :
        find_snapshot_volume_name_by_snapshot_name(listing, n) = r

NameMissing == <<"m", "i", "s", "s", "i", "n", "g">>
QueryNames == {NameDb1, NameMissing, <<>>}

\* C4: for the volumes of every reachable state and every snapshot name,
\* resolving the name gives not-found when no snapshot volume has that
\* name, that volume when exactly one has, and an error when two or more
\* have; it never gives one of several.
C4_ResolveExactlyOne ==
    \A n \in QueryNames :
        LET named == SnapshotsNamed(volumes, n)
        IN  /\ named = {} => ResolvesTo(volumes, n, None)
            /\ \A v \in named : named = {v} => ResolvesTo(volumes, n, Some(v))
            /\ Cardinality(named) >= 2 => ResolvesTo(volumes, n, Err("Ambiguous"))

\* A command has resolved a name that two snapshot volumes carry.
C4_Witness ==
    /\ result["i1"] = "Ambiguous"
    /\ Cardinality(SnapshotsNamed(volumes, cmd["i1"].name)) >= 2

\* Invocation i creates its snapshot volume in this step.
CreatesSnapshotVolume(i) ==
    \/ pc[i] = "c_create_volume" /\ pc'[i] = "rc_image"
    \/ pc[i] = "mc_create_volume" /\ pc'[i] = "mc_create"

\* Invocation i removes the snapshot volume it resolved in this step.
RemovesSnapshotVolume(i) ==
    /\ pc[i] \in {"d_remove", "rs_sdrop_remove"}
    /\ loc[i].svol \in volumes
    /\ loc[i].svol \notin volumes'

\* C5: when create_volume(get_snapshot_volume_name(ts, name)) succeeds and
\* no other snapshot has that name, the name resolves to exactly that
\* volume; when drop_volume removes that volume, the name resolves to
\* not-found; no other volume is touched by either step.
C5_DiscoveryAfterCreateAndDrop ==
    [][\A i \in Invocations :
        LET v == loc[i].svol
            n == cmd[i].name
        IN  /\ (CreatesSnapshotVolume(i) /\ SnapshotsNamed(volumes \ {v}, n) = {})
                    => /\ ResolvesTo(volumes', n, Some(v))
                       /\ volumes' \ {v} = volumes \ {v}
            /\ (RemovesSnapshotVolume(i) /\ SnapshotsNamed(volumes \ {v}, n) = {})
                    => /\ ResolvesTo(volumes', n, None)
                       /\ volumes' = volumes \ {v}]_vars

\* create has made its snapshot volume, the only one of its name.
C5_Witness ==
    /\ cmd["i1"].op = "create"
    /\ pc["i1"] = "rc_image"
    /\ SnapshotsNamed(volumes, cmd["i1"].name) = {loc["i1"].svol}

\* create leaves its first check in this step, for a name that n existing
\* snapshot volumes carry.
LeavesSnapshotCheck(i) == pc[i] = "c_verify" /\ pc'[i] # "c_verify"

\* C6 as stated: creating a snapshot whose name an existing snapshot
\* volume carries fails with already-exists whenever the runtime answered
\* the listing, and creates no volume and no container.
C6_AlreadyExistsAlways ==
    [][\A i \in Invocations :
        ( /\ LeavesSnapshotCheck(i)
          /\ SnapshotsNamed(volumes, cmd[i].name) # {}
          /\ result'[i] # "RuntimeError" )
            => /\ pc'[i] = "done"
               /\ result'[i] = "AlreadyExists"
               /\ volumes' = volumes
               /\ containers' = containers]_vars

\* C6 as amended: the error is already-exists when exactly one snapshot
\* volume carries the name and the more-than-one-snapshot error when
\* several do (a runtime error when the listing fails); in each case the
\* command ends there, with no volume and no container created.
C6_ExistingNameRejected ==
    [][\A i \in Invocations :
        LET named == SnapshotsNamed(volumes, cmd[i].name)
        IN  (LeavesSnapshotCheck(i) /\ named # {})
                => /\ pc'[i] = "done"
                   /\ \/ result'[i] = "RuntimeError"
                      \/ Cardinality(named) = 1 /\ result'[i] = "AlreadyExists"
                      \/ Cardinality(named) >= 2 /\ result'[i] = "Ambiguous"
                   /\ volumes' = volumes
                   /\ containers' = containers]_vars

\* create was refused for a name that one snapshot volume carries.
C6_Witness ==
    /\ cmd["i1"].op = "create"
    /\ result["i1"] = "AlreadyExists"
    /\ Cardinality(SnapshotsNamed(volumes, cmd["i1"].name)) = 1
    /\ containers = [c \in {} |-> NoCommand]

----------------------------------------------------------------------------
(* Properties of drop_volume.                                              *)

DropVerifyLabels == {"rs_drop_verify", "rs_sdrop_verify", "d_verify"}
DropRemoveLabels == {"rs_drop_remove", "rs_sdrop_remove", "d_remove"}

\* The volume invocation i is dropping.
DropTarget(i) ==
    IF pc[i] \in {"rs_drop_verify", "rs_drop_remove"} THEN cmd[i].target
    ELSE loc[i].svol

----------------------------------------------------------------------------
(* Properties of the progress records.                                     *)

\* C8: every record written has progress <= total, with total the
\* operation's total size, and no record has a smaller progress than the
\* record before it; the counter itself never goes down or past total.
C8_ProgressBoundedMonotone ==
    /\ rProgress <= rTotal
    /\ \A k \in 1..Len(rEmitted) :
        /\ rEmitted[k].total = rTotal
        /\ rEmitted[k].progress <= rEmitted[k].total
        /\ k > 1 => rEmitted[k - 1].progress <= rEmitted[k].progress

\* Chunks adding up to more than total have been reported out of order and
\* records of them have been written.
C8_Witness ==
    /\ rReported > rTotal
    /\ Len(rEmitted) >= 2
    /\ rEmitted[Len(rEmitted)].progress = rTotal
    /\ rTotal > 0

\* C9: when the operation has returned successfully, having reported at
\* least total bytes, the last record written has progress = total.
C9_FinalRecordDelivered ==
    (rState = "finished" /\ rReported >= rTotal)
        => /\ rEmitted # <<>>
           /\ rEmitted[Len(rEmitted)].progress = rTotal

----------------------------------------------------------------------------
(* Properties of snapshot and restore.                                     *)

\* A tree without the permission bits: paths, types, link targets and
\* file contents.
Shape(tree) == [p \in DOMAIN tree |-> [type |-> tree[p].type, data |-> tree[p].data]]

\* C10: when a tree has been snapshotted and restored into an empty
\* destination, the restore has succeeded and the destination holds the
\* same paths with the same types, link targets and file contents as the
\* source tree, with and without compression.
C10_RoundTrip ==
    (wPc = "done" /\ ~wSnap.given)
        => (wResult = "Ok" /\ Shape(wRestored) = Shape(wTree))

\* Without compression, the functions of snapshot.rs give the tree back.
RoundTripUncompressedLibrary ==
    (wPc = "done" /\ wEntry = "library" /\ ~wCompress)
        => (wResult = "Ok" /\ Shape(wRestored) = Shape(wTree))

----------------------------------------------------------------------------
(* Properties of naming.                                                   *)

\* v is "vsnap-", at least ten digits and "-", followed by anything.
HasSnapshotShape(v) ==
    \E k \in MinTimestampDigits..Len(v) :
        /\ Len(v) >= Len(VsnapDash) + k + 1
        /\ SubSeq(v, 1, Len(VsnapDash)) = VsnapDash
        /\ \A j \in 1..k : IsDigit(v[Len(VsnapDash) + j])
        /\ v[Len(VsnapDash) + k + 1] = "-"

\* The name made for the identity is recognised and gives the name back.
NameReadBack ==
    naming.pc = "decoded" =>
        /\ naming.listed = <<naming.volume>>
        /\ naming.stripped = naming.name

\* A volume name without the shape is not listed as a snapshot volume.
ForeignNotListed ==
    (naming.pc = "recognized" /\ ~HasSnapshotShape(naming.volume))
        => /\ naming.listed = <<>>
           /\ naming.extracted.tag = "Err"

\* C11 as stated: for every timestamp of at least ten digits and every
\* name, the volume name matches the pattern, the stripped name is the
\* name, and the extracted timestamp is the timestamp; a volume name without
\* the shape is never taken for a snapshot volume.
C11_NamingReversible ==
    /\ NameReadBack
    /\ ForeignNotListed
    /\ naming.pc = "decoded" =>
            naming.extracted = [tag |-> "Ok", val |-> naming.ts]

\* C11 as amended: the same, with the timestamp extracted only when it is
\* within what a date-time can hold; for a later timestamp the extraction
\* is an error, the name still being recognised and stripped.
C11_NamingReversibleInRange ==
    /\ NameReadBack
    /\ ForeignNotListed
    /\ naming.pc = "decoded" =>
            IF LimbsLeq(naming.ts.mag, CHRONO_MAX)
            THEN naming.extracted = [tag |-> "Ok", val |-> naming.ts]
            ELSE naming.extracted.tag = "Err"

\* A name that starts like a timestamp has been read back from a volume
\* name whose timestamp has more than ten digits.
C11_Witness ==
    /\ naming.pc = "decoded"
    /\ naming.name = FormatNat(ClockStart) \o <<"-", "a">>
    /\ naming.ts.mag = CHRONO_MAX
    /\ naming.stripped = naming.name
    /\ naming.extracted.tag = "Ok"

\* C12: whatever paths the entries of an archive carry, the restore writes
\* nothing at a place outside the restore directory.
C12_NothingWrittenOutside ==
    wPc = "done" => \A p \in DOMAIN wRestored : ~EscapesDestination(p)

----------------------------------------------------------------------------
(* Properties of the worker container.                                     *)

\* The volume the operation of invocation i reads, and the one it fills.
ReadVolume(i) == IF cmd[i].op = "restore" THEN loc[i].svol ELSE cmd[i].source
FilledVolume(i) == IF cmd[i].op = "restore" THEN cmd[i].target ELSE loc[i].svol

\* The worker container of i has the volume read mounted read-only and the
\* volume filled mounted read-write, each at its own path.
MountedAsSpecified(c) ==
    LET i == containers[c].owner
    IN  \E r \in containers[c].mounts, w \in containers[c].mounts :
            /\ containers[c].mounts = {r, w}
            /\ r.vol = ReadVolume(i) /\ r.ro
            /\ w.vol = FilledVolume(i) /\ ~w.ro
            /\ r.target # w.target

Workers == {c \in DOMAIN containers : containers[c].kind = "worker"}

\* C13 as stated: the volume read is mounted read-only, the other one
\* read-write, and the worker never writes to the volume read.
C13_ReadVolumeUntouched ==
    \A c \in Workers :
        /\ MountedAsSpecified(c)
        /\ ReadVolume(containers[c].owner) \notin containers[c].wrote

\* With the volume read and the volume filled being two volumes, the
\* mounts are as specified and the volume read is never written.
ReadVolumeUntouchedWhenDistinct ==
    \A c \in Workers :
        ReadVolume(containers[c].owner) # FilledVolume(containers[c].owner)
            => /\ MountedAsSpecified(c)
               /\ ReadVolume(containers[c].owner) \notin containers[c].wrote

\* The runtime calls of invocation i on its worker container come in the
\* order create, start, wait, remove: none is made before the one ahead of
\* it has succeeded, except the removal, which also follows a failure.
CallsInOrder(i) ==
    /\ loc[i].start # "none" => loc[i].create = "ok"
    /\ loc[i].wait # "none" => loc[i].start = "ok"
    /\ loc[i].remove # "none" => (loc[i].wait = "ok" \/ EarlierStepFailed(i))

\* Once the removal has succeeded, i makes no further call on the container
\* and has no container.
RemovedIsTerminal(i) ==
    loc[i].remove = "ok" =>
        /\ loc'[i] = [loc[i] EXCEPT !.rc = loc'[i].rc]
        /\ \A c \in DOMAIN containers' : containers'[c].owner # i

\* The part of the operation that runs the worker returns to its caller:
\* run_command, or the Create arm of the command line's main.
WorkerRunReturns(i) ==
    \/ RunCommandReturns(i)
    \/ pc[i] \in {"mc_create", "mc_start"} /\ pc'[i] = "done"

Unfinished(c) == containers[c].state \in {"created", "running"}

\* C14 as stated: the calls on the worker container come in the order
\* create, start, wait, remove; remove follows a completed wait or a
\* failed step; nothing follows a successful removal; and the operation
\* does not return while its container is created, started or running.
C14_Lifecycle ==
    [][\A i \in Invocations :
        /\ CallsInOrder(i)'
        /\ RemovedIsTerminal(i)
        /\ WorkerRunReturns(i) =>
            \A c \in DOMAIN containers' :
                containers'[c].owner = i => ~Unfinished(c)']_vars

\* The order of the calls and the finality of the removal, without the
\* statement about the return.
LifecycleOrder ==
    [][\A i \in Invocations : CallsInOrder(i)' /\ RemovedIsTerminal(i)]_vars

\* The snapshot directory has no metadata file, or one whose text is not
\* the JSON of a SnapshotMetadata.
MetadataUnreadable ==
    \/ ~wSnap.meta.exists
    \/ from_str(wSnap.meta.content).tag = "Err"

\* C15: restore() of a snapshot whose metadata file is missing or cannot
\* be parsed ends with an error and leaves the restore directory as it
\* was, with nothing created or written in it.
C15_BadMetadataFatal ==
    ( /\ wPc = "done"
      /\ wEntry = "library"
      /\ MetadataUnreadable )
        => (wResult = "Err" /\ wRestored = EmptyTree)

\* restore() has ended on a snapshot that has files to restore and no
\* readable metadata.
C15_Witness ==
    /\ wPc = "done"
    /\ wEntry = "library"
    /\ wSnap.meta \in BadMetadata \ {NoFile}
    /\ wSnap.tar_zst /\ wSnap.entries = SoundArchive
    /\ wResult = "Err"

----------------------------------------------------------------------------
(* Properties of the orchestrator's log following.                         *)

\* The item is a record of the worker on the standard output.
IsProgressItem(item) == item.kind = "StdOut" /\ item.message \in RecordMessages

\* C16: an item of the log that is not a valid Progress record - text that
\* is malformed or not JSON, a message that is not on the standard output,
\* an error of the stream - leaves the bar's position and length as they
\* were, is followed by the handling of the next item, and does not make
\* run_command fail.
C16_OtherItemsIgnored ==
    [][ /\ (hPc = "logs" /\ hNext <= Len(hItems) /\ ~IsProgressItem(hItems[hNext]))
            => /\ hBar' = hBar
               /\ hPc' = "logs" /\ hNext' = hNext + 1
        /\ hResult' \in {"none", "Ok"} ]_vars

\* A record, then an error of the stream, then a record cut short, have
\* been handled and the stream has ended: the bar shows the record.
C16_Witness ==
    /\ hPc = "wait"
    /\ hItems = << StdOut(ProgressLine(1, MaxRecordTotal)), StreamError,
                   StdOut(LineStart) >>
    /\ hBar = [create_progress_bar EXCEPT !.position = 1, !.length = MaxRecordTotal]

----------------------------------------------------------------------------
(* Properties of what a snapshot keeps of a tree.                          *)

\* The tree is empty, or it holds nothing but directories, which are then
\* empty or hold empty directories.
DirectoriesOnly(tree) == \A p \in DOMAIN tree : tree[p].type = "dir"

\* C17: for a source that is empty or holds only empty directories, the
\* tree that restore(snapshot(source)) of snapshot.rs leaves has the
\* relative paths of the source, none missing and none more, with and
\* without compression.
C17_EmptyTreesPreserved ==
    (wPc = "done" /\ wEntry = "library" /\ ~wSnap.given /\ DirectoriesOnly(wTree))
        => DOMAIN wRestored = DOMAIN wTree

\* The same without compression, and with the restore returning Ok.
EmptyTreesPreservedUncompressed ==
    (wPc = "done" /\ wEntry = "library" /\ ~wCompress /\ DirectoriesOnly(wTree))
        => (wResult = "Ok" /\ DOMAIN wRestored = DOMAIN wTree)

\* C18: every entry of the source tree that restore(snapshot(source)) of
\* snapshot.rs has brought back has the permission bits it has in the
\* source, with and without compression.
C18_PermissionsPreserved ==
    (wPc = "done" /\ wEntry = "library" /\ ~wSnap.given) =>
        \A p \in DOMAIN wTree \cap DOMAIN wRestored :
            wRestored[p].mode = wTree[p].mode

\* The same for what decompress_tar brings back, for the nine bits of
\* rwxrwxrwx.
PermissionsPreservedCompressed ==
    (wPc = "done" /\ wEntry = "library" /\ wCompress /\ ~wSnap.given) =>
        \A p \in DOMAIN wTree \cap DOMAIN wRestored :
            wRestored[p].mode = wTree[p].mode \cap PermissionBits

----------------------------------------------------------------------------
(* Properties of two invocations side by side.                             *)

\* The step is one of invocation i.
StepOf(i) == pc'[i] # pc[i]

\* The containers the step removes, and those whose state it changes.
RemovedByStep == DOMAIN containers \ DOMAIN containers'
StartedByStep ==
    {c \in DOMAIN containers \cap DOMAIN containers' :
        containers[c].state = "created" /\ containers'[c].state = "running"}

\* C19: the names two invocations generate for their worker containers
\* differ, also when both start in the same second; an invocation starts
\* and removes only a container it has created; and an invocation whose
\* create_container failed removes no container.
C19_OwnContainerOnly ==
    [][\A i \in Invocations :
        /\ \A j \in Invocations \ {i} :
            loc'[i].cname # <<>> => loc'[i].cname # loc'[j].cname
        /\ StepOf(i) =>
            /\ \A c \in RemovedByStep \cup StartedByStep : containers[c].owner = i
            /\ loc[i].create = "failed" => RemovedByStep = {}]_vars

\* The same without the names: what an invocation starts or removes.
OwnContainerStartedRemoved ==
    [][\A i \in Invocations :
        StepOf(i) =>
            \A c \in RemovedByStep \cup StartedByStep : containers[c].owner = i]_vars

----------------------------------------------------------------------------
(* Properties of the in-use check.                                         *)

\* C20: verify_volume_not_in_use gives the in-use error for a volume that
\* any container references - running or stopped, reported with a name
\* starting with "/", with another name or with none - and Ok for a volume
\* no container references.
C20_InUseDetected ==
    \A v \in volumes :
        verify_volume_not_in_use(v) = IF Users(v) # {} THEN Err("InUse") ELSE None

\* The same when every container that references the volume is reported
\* under a first name that starts with "/".
InUseDetectedForSlashNames ==
    \A v \in volumes :
        Users(v) = InUseNames(v) =>
            verify_volume_not_in_use(v) = IF Users(v) # {} THEN Err("InUse") ELSE None

----------------------------------------------------------------------------
(* Properties of the create command.                                       *)

CreateOps == {"create", "main_create"}
AllChecks == {"name", "in_use", "exists"}

\* The step gives invocation i a worker container.
CreatesWorker(i) ==
    \E c \in DOMAIN containers' \ DOMAIN containers : containers'[c].owner = i

\* Invocation i is at one of the checks of create and the checked condition
\* does not hold: the name is taken, the source is in use, the source does
\* not exist.
CheckFails(i) ==
    \/ pc[i] = "c_verify" /\ SnapshotsNamed(volumes, cmd[i].name) # {}
    \/ pc[i] = "c_in_use" /\ verify_volume_not_in_use(cmd[i].source).tag = "Err"
    \/ pc[i] \in {"c_exists", "mc_inspect"} /\ cmd[i].source \notin volumes

ChecksBeforeCreation(i) ==
    /\ (CreatesSnapshotVolume(i) \/ CreatesWorker(i)) => loc[i].checks = AllChecks
    /\ (StepOf(i) /\ CheckFails(i)) =>
            /\ result'[i] \notin {"none", "Ok"}
            /\ UNCHANGED <<volumes, containers>>

\* C21: create makes the snapshot volume and the worker container only
\* after the three checks have passed - name not taken, source not in use,
\* source exists; when a check fails the command returns an error and the
\* runtime's volumes and containers are as they were.
C21_ChecksBeforeCreation ==
    [][\A i \in Invocations :
        cmd[i].op \in CreateOps => ChecksBeforeCreation(i)]_vars

\* The same for create() of cli.rs alone.
ChecksBeforeCreationLibrary ==
    [][\A i \in Invocations :
        cmd[i].op = "create" => ChecksBeforeCreation(i)]_vars

\* create of invocation i has made its snapshot volume and, after that, a
\* step of run_command failed or the worker did not exit with 0.
FailedAfterVolume(i) ==
    /\ cmd[i].op = "create"
    /\ loc[i].cname # <<>>
    /\ (EarlierStepFailed(i) \/ loc[i].exit # 0)

Listed(listing, v) ==
    \E k \in 1..Len(find_snapshot_volume_names(listing)) :
        find_snapshot_volume_names(listing)[k] = v

\* C22: when create has returned after such a failure, the snapshot volume
\* still exists, find_snapshot_volume_names lists it and its name resolves
\* to it, as for a snapshot that was completed.
C22_NoRollback ==
    \A i \in Invocations :
        (pc[i] = "done" /\ FailedAfterVolume(i)) =>
            /\ loc[i].svol \in volumes
            /\ \A listing \in ListVolumesFiltered(volumes) : Listed(listing, loc[i].svol)
            /\ ResolvesTo(volumes, cmd[i].name, Some(loc[i].svol))

\* create has returned after its worker exited with 1.
C22_Witness ==
    \E i \in Invocations :
        /\ pc[i] = "done"
        /\ FailedAfterVolume(i)
        /\ loc[i].wait = "ok" /\ loc[i].exit = 1
        /\ loc[i].svol \in volumes

----------------------------------------------------------------------------
(* Properties of the worker image.                                         *)

\* The image is pulled when it is absent and creation is attempted without
\* a pull only when it is present; a container is created only with the
\* image present, so after the pull.
EnsureImageOrder(i) ==
    /\ (pc[i] = "rc_image" /\ StepOf(i)) =>
            /\ ~imagePresent => pc'[i] = "rc_pull"
            /\ pc'[i] = "rc_create" => imagePresent
    /\ (pc[i] = "rc_create" /\ StepOf(i)) =>
            (CreatesWorker(i) => imagePresent)
    /\ (pc'[i] = "rc_create" /\ StepOf(i)) => pc[i] \in {"rc_image", "rc_pull"}

\* C23: run_command pulls the image exactly when it is found absent, the
\* pull is over before create_container is called, and when the image is
\* still absent after the pull no container is created and run_command
\* returns an error.
C23_EnsureImage ==
    [][\A i \in Invocations :
        /\ EnsureImageOrder(i)
        /\ (RunCommandReturns(i) /\ ~imagePresent) => loc'[i].rc # "Ok"]_vars

\* The order of inspection, pull and creation alone.
EnsureImageOrdered ==
    [][\A i \in Invocations : EnsureImageOrder(i)]_vars


\* ---------------------------------------------------------------------
\* C25: lines and log frames

\* What the worker wrote on the standard output, frame after frame.
RECURSIVE Written(_)
Written(items) ==
    IF items = <<>> THEN <<>> ELSE Head(items).message \o Written(Tail(items))

\* The lines of the output: what stands before each NewLine.
RECURSIVE LinesFrom(_, _)
LinesFrom(bytes, line) ==
    IF bytes = <<>> THEN <<>>
    ELSE IF Head(bytes) = NewLine THEN <<line>> \o LinesFrom(Tail(bytes), <<>>)
    ELSE LinesFrom(Tail(bytes), Append(line, Head(bytes)))
Lines(bytes) == LinesFrom(bytes, <<>>)

\* The bar after the records of the lines have been applied in order.
RECURSIVE ApplyLines(_, _)
ApplyLines(progress_bar, lines) ==
    IF lines = <<>> THEN progress_bar
    ELSE ApplyLines(HandleLog(StdOut(Head(lines)), progress_bar), Tail(lines))

\* The stream delivers the output of a worker that wrote Progress lines
\* only: every frame is of the standard output, the output ends with the
\* end of a line and every line is a well-formed record.
WorkerLinesOnly ==
    /\ \A j \in 1..Len(hItems) : hItems[j].kind = "StdOut"
    /\ LET bytes == Written(hItems)
       IN  /\ bytes # <<>> /\ bytes[Len(bytes)] = NewLine
           /\ \A j \in 1..Len(Lines(bytes)) :
                Append(Lines(bytes)[j], NewLine) \in RecordMessages

\* C25: when the log stream has ended, the bar is what the records of the
\* lines the worker wrote make it, however the lines lie in the frames.
C25_EveryLineApplied ==
    (hPc = "wait" /\ WorkerLinesOnly)
        => hBar = ApplyLines(create_progress_bar, Lines(Written(hItems)))

\* The same when every frame holds exactly one line.
EveryLineAppliedFramePerLine ==
    (hPc = "wait" /\ hItems # <<>> /\ \A j \in 1..Len(hItems) : IsProgressItem(hItems[j]))
        => hBar = ApplyLines(create_progress_bar, Lines(Written(hItems)))


\* ---------------------------------------------------------------------
\* C24: following the log and removing the container

\* Everything the worker wrote: what the stream delivered and what it did
\* not.
AllWritten == Written(hItems) \o Written([j \in 1..Len(hUnread) |-> StdOut(hUnread[j])])

\* The worker wrote Progress lines only, and the stream yielded frames of
\* the standard output and errors only.
WroteLinesOnly ==
    /\ \A j \in 1..Len(hItems) : hItems[j].kind \in {"StdOut", "Err"}
    /\ AllWritten # <<>> /\ AllWritten[Len(AllWritten)] = NewLine
    /\ \A j \in 1..Len(Lines(AllWritten)) :
            Append(Lines(AllWritten)[j], NewLine) \in RecordMessages

\* The record of the last line the worker wrote.
LastWritten ==
    from_slice(Lines(AllWritten)[Len(Lines(AllWritten))]).val

\* C24: when run_command goes on to remove the container, nothing the
\* worker wrote is unread and the bar is at the record of the last line
\* written.
C24_LastRecordApplied ==
    [][ (hPc = "wait" /\ hPc' = "done" /\ WroteLinesOnly)
            => /\ hUnread = <<>>
               /\ hBar.position = LastWritten.progress
               /\ hBar.length = LastWritten.total ]_vars

\* The same when the stream delivers one line in each frame and ends
\* without an error.
LastRecordAppliedCleanStream ==
    [][ (hPc = "wait" /\ hPc' = "done" /\ hItems # <<>>
            /\ \A j \in 1..Len(hItems) : IsProgressItem(hItems[j]))
            => /\ hUnread = <<>>
               /\ hBar.position = LastWritten.progress
               /\ hBar.length = LastWritten.total ]_vars


\* ---------------------------------------------------------------------
\* C26: the bar when run_command returns

\* The records the bar has received, in order.
Received ==
    SelectSeq(hItems, LAMBDA item :
        item.kind = "StdOut" /\ from_slice(item.message).tag = "Some")

LastReceived == from_slice(Received[Len(Received)].message).val

\* C26: when run_command has returned and a record was received, the bar
\* has been finished, is on the screen and shows the last record received.
C26_FinalizedAtLastRecord ==
    (hPc = "done" /\ Received # <<>>)
        => /\ hBar.finished /\ hBar.shown
           /\ hBar.position = LastReceived.progress
           /\ hBar.length = LastReceived.total

\* The same when the last record received has progress = total.
FinalizedAtLastRecordWhenComplete ==
    (hPc = "done" /\ Received # <<>> /\ LastReceived.progress = LastReceived.total)
        => /\ hBar.finished /\ hBar.shown
           /\ hBar.position = LastReceived.progress
           /\ hBar.length = LastReceived.total

\* Until the bar is dropped it is at the last record received.
AtLastRecordBeforeDrop ==
    (hPc = "wait" /\ Received # <<>>)
        => /\ hBar.position = LastReceived.progress
           /\ hBar.length = LastReceived.total


\* ---------------------------------------------------------------------
\* C27: the arm of the restore

\* C27: a restore that gets as far as choosing takes the archive arm when
\* the archive file exists in the snapshot directory and the files arm when
\* it does not; a snapshot that was written here with compress = c is
\* restored through the arm of c.
C27_BranchBySnapshotDir ==
    [][ (wPc = "restore" /\ wBranch' # "none")
            => /\ wBranch' = (IF wSnap.tar_zst THEN "archive" ELSE "files")
               /\ ~wSnap.given =>
                    wBranch' = (IF wCompress THEN "archive" ELSE "files") ]_vars

\* The same for restore of snapshot.rs.
BranchBySnapshotDirLibrary ==
    [][ (wEntry = "library" /\ wPc = "restore" /\ wBranch' # "none")
            => /\ wBranch' = (IF wSnap.tar_zst THEN "archive" ELSE "files")
               /\ ~wSnap.given =>
                    wBranch' = (IF wCompress THEN "archive" ELSE "files") ]_vars


\* ---------------------------------------------------------------------
\* C28: the counting decorator and the data path

\* poll_read or poll_write of the decorator is called in this step, and
\* the inner read puts n bytes in the buffer or the inner write takes n.
Polls == rImpl = "reporter" /\ (rChunks' # rChunks \/ rPoll' # rPoll)

\* The sum of the send tasks that have not run.
PendingTasks(tasks) ==
    LET RECURSIVE Sum(_)
        Sum(n) == IF n < 0 THEN 0 ELSE tasks[n] + Sum(n - 1)
    IN  Sum(MaxChunk)

\* C28: a poll of the decorator gives what the inner stream gave, with the
\* channel full, empty or closed; when that is Ready with n bytes one send
\* task for n is added and n is counted as reported; when it is Pending or
\* an error no task is added and nothing is counted; the poll itself puts
\* nothing in the channel.
C28_Transparent ==
    [][ Polls =>
          /\ rPoll'.returned = rPoll'.inner
          /\ rChannel' = rChannel
          /\ IF rPoll'.inner.tag = "Ready"
             THEN /\ rTasks' = [rTasks EXCEPT ![rPoll'.inner.bytes] = @ + 1]
                  /\ rReported' = rReported + rPoll'.inner.bytes
                  /\ rChunks' = rChunks + 1
             ELSE /\ rTasks' = rTasks
                  /\ rReported' = rReported
                  /\ rChunks' = rChunks ]_vars

\* A read of one byte has been polled with the channel closed and a task
\* waiting, after a poll before it.
C28_Witness ==
    /\ rClosed
    /\ rPoll = [op |-> "read", inner |-> Ready(1), returned |-> Ready(1)]
    /\ rChunks = 2
    /\ PendingTasks(rTasks) = 2
    /\ rReported = 1

\* The same with the channel full.
PollsWithChannelFull ==
    /\ ~rClosed
    /\ Len(rChannel) = ChannelCapacity
    /\ rPoll.inner.tag = "Err"
    /\ PendingTasks(rTasks) > 0


\* ---------------------------------------------------------------------
\* C29: the hand-off from the decorator to the reporter

\* What a hand-off through the channel alone would hold at most: a full
\* channel and one send waiting for room.
HandOffBound == ChannelCapacity + 1

\* C29: the send tasks that have not run and the sizes in the channel are
\* together never more than the bound, however many chunks were polled.
C29_BoundedHandOff ==
    PendingTasks(rTasks) + Len(rChannel) <= HandOffBound

\* Every chunk polled has a task of its own until its size is sent: with a
\* reporter that receives nothing, the tasks that wait are as many as the
\* chunks.
OneTaskPerChunk ==
    (rImpl = "reporter" /\ ~rClosed)
        => PendingTasks(rTasks) + Len(rChannel) + Len(rEmitted) = rChunks


\* ---------------------------------------------------------------------
\* C30: what is counted in compressed mode

\* A compressed snapshot of snapshot.rs ends without an error in this step.
CompressedSnapshotDone ==
    wEntry = "library" /\ wCompress /\ wPc = "snapshot" /\ wPc' = "restore"

\* A restore of snapshot.rs from an archive ends with Ok in this step.
ArchiveRestoreDone ==
    wEntry = "library" /\ wPc = "restore" /\ wBranch' = "archive" /\ wResult' = "Ok"

\* The total that the metadata file holds.
StoredTotal(snap) == SnapshotMetadata_read(snap.meta).val

\* C30: when a compressed snapshot or a restore from an archive has
\* succeeded, the bytes given to the progress callback add up to the total
\* of the metadata, which at a snapshot is the sum of the sizes of the
\* regular files of the source.
C30_CountedEqualsTotal ==
    [][ /\ CompressedSnapshotDone
            => /\ StoredTotal(wSnap') = calculate_total_size(wTree)
               /\ wCounted' = StoredTotal(wSnap')
        /\ ArchiveRestoreDone => wCounted' = StoredTotal(wSnap) ]_vars

\* What holds of the count in compressed mode: it is taken on the tar
\* stream, outside the compressor, so it is the size of that stream,
\* headers, filling and end blocks included, and more than the total.
CountedOnTarStream ==
    [][ /\ CompressedSnapshotDone
            => /\ StoredTotal(wSnap') = calculate_total_size(wTree)
               /\ wCounted' = TarStreamSize(TarEntries(wTree, WalkDir(wTree)))
               /\ wCounted' > StoredTotal(wSnap')
        /\ (ArchiveRestoreDone /\ wSnap.ended)
            => wCounted' > StoredTotal(wSnap) ]_vars

\* Without compression the count of a snapshot that succeeded is the total.
CountedEqualsTotalUncompressed ==
    [][ (wEntry = "library" /\ ~wCompress /\ wPc = "snapshot" /\ wPc' = "restore")
            => wCounted' = StoredTotal(wSnap') ]_vars


\* ---------------------------------------------------------------------
\* C31: restore with the drop flag and the snapshot volume

\* The restore of invocation i removes its snapshot volume in this step.
DropsSnapshotVolume(i) ==
    /\ cmd[i].op = "restore"
    /\ pc[i] = "rs_sdrop_remove"
    /\ loc[i].svol \in volumes
    /\ loc[i].svol \notin volumes'

\* The worker of invocation i was created and started, and wait_container
\* reported its exit with code 0.
WorkerSucceeded(i) ==
    /\ loc[i].create = "ok"
    /\ loc[i].start = "ok"
    /\ loc[i].wait = "ok"
    /\ loc[i].exit = 0

\* C31: restore removes the snapshot volume only when the drop flag is set
\* and the restore worker has run and ended with success.
C31_DropOnlyAfterSuccess ==
    [][\A i \in Invocations :
        DropsSnapshotVolume(i) => (cmd[i].drop /\ WorkerSucceeded(i))]_vars

\* What holds: the snapshot volume is removed only with the drop flag set,
\* after run_command has returned, and after a passed not-in-use check.
DropOnlyAfterRunCommand ==
    [][\A i \in Invocations :
        DropsSnapshotVolume(i)
            => /\ cmd[i].drop
               /\ loc[i].rc = "Ok"
               /\ loc[i].remove # "none"]_vars


\* ---------------------------------------------------------------------
\* C32: restore onto a volume that exists

\* The containers invocation i made that mount volume v.
WorkersOn(i, v) ==
    { c \in DOMAIN containers :
        /\ containers[c].owner = i
        /\ \E m \in containers[c].mounts : m.vol = v }

\* C32: when restore found its target volume and the answer to the prompt
\* was no, no worker container of that restore mounts the target, and so
\* none writes to it.
C32_DeclinedTargetUntouched ==
    \A i \in Invocations :
        (cmd[i].op = "restore" /\ loc[i].declined)
            => WorkersOn(i, cmd[i].target) = {}

\* What holds: restore removes its target volume only after the answer yes
\* and a passed not-in-use check.
TargetRemovedOnlyWhenConfirmed ==
    [][\A i \in Invocations :
        ( /\ cmd[i].op = "restore"
          /\ pc[i] \in {"rs_exists", "rs_drop_verify", "rs_drop_remove", "rs_create_volume"}
          /\ cmd[i].target \in volumes
          /\ cmd[i].target \notin volumes' )
            => /\ pc[i] = "rs_drop_remove"
               /\ cmd[i].answer
               /\ ~loc[i].declined ]_vars


\* ---------------------------------------------------------------------
\* C33: two creates of one snapshot name

\* C33: at most one snapshot volume carries the name the two creates were
\* given.
C33_NameNeverAmbiguous ==
    Cardinality(SnapshotsNamed(volumes, NameDb1)) <= 1

\* What holds: while the clock shows the second in which the commands were
\* started, both form the same volume name and at most one volume exists.
OneVolumeWithinOneSecond ==
    clock = ClockStart => Cardinality(SnapshotsNamed(volumes, NameDb1)) <= 1

\* ... and a create whose check runs after the other's volume exists is
\* refused.
LateCheckRefused ==
    [][\A i \in Invocations :
        ( /\ pc[i] = "c_verify" /\ pc'[i] # "c_verify"
          /\ Cardinality(SnapshotsNamed(volumes, NameDb1)) = 1 )
            => /\ pc'[i] = "done"
               /\ result'[i] \in {"AlreadyExists", "RuntimeError"}]_vars

=============================================================================
